---- MODULE Spec2Model ----
(***************************************************************************)
(* A model of the yamos6502 behavioural MOS 6502 emulator.                 *)
(*                                                                         *)
(* The state is the Mos6502 structure (memory, register file, the three    *)
(* pending-event flags, the latched fault, the last opcode and the stack   *)
(* wraparound policy) together with the host memory configuration.  The    *)
(* operations are the host-visible methods: set_reset_pending,             *)
(* set_nmi_pending, set_irq_pending and run.  run and everything it calls  *)
(* (step, the addressing modes, the stack helpers, the ALU) are operators  *)
(* over a record holding the structure's fields, written in the order of   *)
(* the Rust statements, with `?` modelled by the Bind operator.            *)
(***************************************************************************)
EXTENDS Integers, Sequences, FiniteSets, TLC

VARIABLES
    mem,                    \* Mos6502::mem: the cells that differ from the fill byte
    bad,                    \* host memory: addresses that answer BadAddress
    rom_start,              \* host memory: first read-only address (RomRam::rom_start)
    reg_file,               \* Mos6502::reg_file
    reset_pending,          \* Mos6502::reset_pending
    irq_pending,            \* Mos6502::irq_pending
    nmi_pending,            \* Mos6502::nmi_pending
    fault,                  \* Mos6502::fault
    last_opcode,            \* Mos6502::last_opcode
    allow_stack_wraparound, \* Mos6502::allow_stack_wraparound
    ret,                    \* what the last run() call returned
    path,                   \* the stages the last run() call entered, in order
    old,                    \* the structure as it was when the last run() was called
    out,                    \* the structure as the last run() left it
    calls,                  \* number of run() calls made so far
    window                  \* the event whose flag the executing run() has loaded as
                            \* true and not yet stored ("-" when there is none), and
                            \* whether its setter has taken effect again since

vars == << mem, bad, rom_start, reg_file, reset_pending, irq_pending, nmi_pending,
           fault, last_opcode, allow_stack_wraparound, ret, path, old, out, calls, window >>

(***************************************************************************)
(* Bounds of the exploration.                                              *)
(***************************************************************************)
MaxRuns == 3

(***************************************************************************)
(* Program constants.                                                      *)
(***************************************************************************)
MAX_MEMORY_SIZE == 65536
IRQ_BRK_VECTOR == 65534
RESET_VECTOR == 65532
NMI_VECTOR == 65530
STACK_BOTTOM == 256
U8_MAX == 255
FILL_BYTE == 0

(***************************************************************************)
(* Fixed-width arithmetic.                                                 *)
(***************************************************************************)
Pow2(k) == 2 ^ k

Bit(x, k) == (x \div Pow2(k)) % 2

wrap8(x) == x % 256

wrap16(x) == x % 65536

\* `b as i8`
as_i8(b) == IF b >= 128 THEN b - 256 ELSE b

\* `a & b` on 16-bit operands
BitAnd(a, b) ==
    LET f[k \in 0 .. 16] ==
            IF k = 16 THEN 0 ELSE Bit(a, k) * Bit(b, k) * Pow2(k) + f[k + 1]
    IN  f[0]

\* `a | b` on 16-bit operands
BitOr(a, b) ==
    LET f[k \in 0 .. 16] ==
            IF k = 16 THEN 0
            ELSE (IF Bit(a, k) + Bit(b, k) > 0 THEN Pow2(k) ELSE 0) + f[k + 1]
    IN  f[0]

\* `a ^ b` on 16-bit operands
BitXor(a, b) ==
    LET f[k \in 0 .. 16] ==
            IF k = 16 THEN 0
            ELSE ((Bit(a, k) + Bit(b, k)) % 2) * Pow2(k) + f[k + 1]
    IN  f[0]

\* `!v` on a u16
BitNot16(v) == 65535 - v

\* u16::from_le_bytes([lo, hi])
from_le_bytes(lo, hi) == hi * 256 + lo

(***************************************************************************)
(* Errors and results.                                                     *)
(***************************************************************************)
NoMem == [kind |-> "-", addr |-> 0]

BadAddress(a) == [kind |-> "BadAddress", addr |-> a]

ReadOnlyAddress(a) == [kind |-> "ReadOnlyAddress", addr |-> a]

\* Option<RunError>::None
None == [kind |-> "None", opcode |-> 0, mem |-> NoMem]

InvalidInstruction(op) == [kind |-> "InvalidInstruction", opcode |-> op, mem |-> NoMem]

CannotFetchInstruction(m) == [kind |-> "CannotFetchInstruction", opcode |-> 0, mem |-> m]

StackOverflow == [kind |-> "StackOverflow", opcode |-> 0, mem |-> NoMem]

StackUnderflow == [kind |-> "StackUnderflow", opcode |-> 0, mem |-> NoMem]

MemoryAccess(m) == [kind |-> "MemoryAccess", opcode |-> 0, mem |-> m]

\* The three ways a fallible function ends: a value, an error, or a panic
\* (arithmetic overflow in a build with overflow checks).  c is the
\* structure as the function left it.
Ok(c, v) == [st |-> "ok", c |-> c, v |-> v, e |-> None]

Err(c, e) == [st |-> "err", c |-> c, v |-> 0, e |-> e]

Panic(c) == [st |-> "panic", c |-> c, v |-> 0, e |-> None]

\* `r?; k(state, value)`: continue with k when r is a value, return r otherwise
Bind(r, k(_, _)) == IF r.st = "ok" THEN k(r.c, r.v) ELSE r

(***************************************************************************)
(* Memory (trait Memory, as implemented by RomRam).                        *)
(***************************************************************************)
cell(c, addr) == IF addr \in DOMAIN c.mem THEN c.mem[addr] ELSE FILL_BYTE

mem_read(c, addr) ==
    IF addr \in c.bad THEN [ok |-> FALSE, v |-> 0, e |-> BadAddress(addr)]
    ELSE [ok |-> TRUE, v |-> cell(c, addr), e |-> NoMem]

\* the cells after `cells[addr] = value`
store(m, addr, value) ==
    [a \in (DOMAIN m \cup {addr}) \ (IF value = FILL_BYTE THEN {addr} ELSE {}) |->
        IF a = addr THEN value ELSE m[a]]

mem_write(c, addr, value) ==
    IF addr \in c.bad THEN [ok |-> FALSE, c |-> c, e |-> BadAddress(addr)]
    ELSE IF addr >= c.rom_start THEN [ok |-> FALSE, c |-> c, e |-> ReadOnlyAddress(addr)]
    ELSE [ok |-> TRUE, c |-> [c EXCEPT !.mem = store(c.mem, addr, value)], e |-> NoMem]

read_u8(c, addr) ==
    LET r == mem_read(c, addr)
    IN  IF r.ok THEN Ok(c, r.v) ELSE Err(c, MemoryAccess(r.e))

write_u8(c, addr, value) ==
    LET r == mem_write(c, addr, value)
    IN  IF r.ok THEN Ok(r.c, 0) ELSE Err(c, MemoryAccess(r.e))

read_u16(c, addr) ==
    LET lo == mem_read(c, addr)
        hi == mem_read(c, wrap16(addr + 1))
    IN  IF ~lo.ok THEN Err(c, MemoryAccess(lo.e))
        ELSE IF ~hi.ok THEN Err(c, MemoryAccess(hi.e))
        ELSE Ok(c, from_le_bytes(lo.v, hi.v))

(***************************************************************************)
(* Register file (regfile.rs).                                             *)
(***************************************************************************)
\* enum Status: the bit index of each flag
Negative == 7
Overflow == 6
AlwaysSet == 5
Break == 4
Decimal == 3
InterruptDisable == 2
Zero == 1
Carry == 0

\* enum Register: the index of each register in RegisterFile::r
A == 0
X == 1
Y == 2
P == 3
S == 4

mask(flag) == Pow2(flag)

\* RegisterFile::new
RegisterFile_new == [pc |-> 65365, r |-> << 170, 204, 210, 0, 1 >>]

reg(rf, rg) == rf.r[rg + 1]

\* `*rf.reg_mut(rg) = value`
reg_mut(rf, rg, value) == [rf EXCEPT !.r[rg + 1] = value]

\* the setter, had it replaced the low byte of PC only
set_pc_low_byte(rf, pc) == [rf EXCEPT !.pc = (rf.pc \div 256) * 256 + (pc % 256)]

set_pc(rf, pc) == [rf EXCEPT !.pc = pc]

\* offset is the i8 value; `offset as i16 as u16` is its value modulo 2^16
adjust_pc_by(rf, offset) == [rf EXCEPT !.pc = wrap16(rf.pc + ((offset + 65536) % 65536))]

flag_set(rf, flag) == BitAnd(reg(rf, P), mask(flag)) # 0

set_flag_from_cond(rf, flag, cond) ==
    reg_mut(rf, P, BitOr(BitAnd(reg(rf, P), U8_MAX - mask(flag)),
                         (IF cond THEN 1 ELSE 0) * Pow2(flag)))

set_flag(rf, flag) == set_flag_from_cond(rf, flag, TRUE)

clear_flag(rf, flag) == set_flag_from_cond(rf, flag, FALSE)

\* RegisterFile::reset
reset(rf) == set_flag(set_flag(reg_mut(rf, P, 0), InterruptDisable), AlwaysSet)

(***************************************************************************)
(* Instructions (insns.rs).                                                *)
(***************************************************************************)
AddressMode ==
    { "Immediate", "Relative", "Xindirect", "Indirect", "IndirectY", "Absolute",
      "AbsoluteX", "AbsoluteY", "Zeropage", "ZeropageX", "ZeropageY" }

\* an Insn variant with an AddressMode payload
I(op, mode) == [op |-> op, mode |-> mode]

\* an Insn variant without payload
N(op) == [op |-> op, mode |-> "-"]

INSN_BY_GROUP ==
  <<
    \* Group 0b00
    <<
      << N("BRK"), N("JAM"), N("PHP"), N("JAM"),
         I("BPL", "Relative"), N("JAM"), N("CLC"), N("JAM") >>,
      << I("JSR", "Absolute"), I("BIT", "Zeropage"), N("PLP"), I("BIT", "Absolute"),
         I("BMI", "Relative"), N("JAM"), N("SEC"), N("JAM") >>,
      << N("RTI"), N("JAM"), N("PHA"), I("JMP", "Absolute"),
         I("BVC", "Relative"), N("JAM"), N("CLI"), N("JAM") >>,
      << N("RTS"), N("JAM"), N("PLA"), I("JMP", "Indirect"),
         I("BVS", "Relative"), N("JAM"), N("SEI"), N("JAM") >>,
      << N("JAM"), I("STY", "Zeropage"), N("DEY"), I("STY", "Absolute"),
         I("BCC", "Relative"), I("STY", "ZeropageX"), N("TYA"), N("JAM") >>,
      << I("LDY", "Immediate"), I("LDY", "Zeropage"), N("TAY"), I("LDY", "Absolute"),
         I("BCS", "Relative"), I("LDY", "ZeropageX"), N("CLV"), I("LDY", "AbsoluteX") >>,
      << I("CPY", "Immediate"), I("CPY", "Zeropage"), N("INY"), I("CPY", "Absolute"),
         I("BNE", "Relative"), N("JAM"), N("CLD"), N("JAM") >>,
      << I("CPX", "Immediate"), I("CPX", "Zeropage"), N("INX"), I("CPX", "Absolute"),
         I("BEQ", "Relative"), N("JAM"), N("SED"), N("JAM") >>
    >>,
    \* Group 0b01
    <<
      << I("ORA", "Xindirect"), I("ORA", "Zeropage"), I("ORA", "Immediate"), I("ORA", "Absolute"),
         I("ORA", "IndirectY"), I("ORA", "ZeropageX"), I("ORA", "AbsoluteY"), I("ORA", "AbsoluteX") >>,
      << I("AND", "Xindirect"), I("AND", "Zeropage"), I("AND", "Immediate"), I("AND", "Absolute"),
         I("AND", "IndirectY"), I("AND", "ZeropageX"), I("AND", "AbsoluteY"), I("AND", "AbsoluteX") >>,
      << I("EOR", "Xindirect"), I("EOR", "Zeropage"), I("EOR", "Immediate"), I("EOR", "Absolute"),
         I("EOR", "IndirectY"), I("EOR", "ZeropageX"), I("EOR", "AbsoluteY"), I("EOR", "AbsoluteX") >>,
      << I("ADC", "Xindirect"), I("ADC", "Zeropage"), I("ADC", "Immediate"), I("ADC", "Absolute"),
         I("ADC", "IndirectY"), I("ADC", "ZeropageX"), I("ADC", "AbsoluteY"), I("ADC", "AbsoluteX") >>,
      << I("STA", "Xindirect"), I("STA", "Zeropage"), N("JAM"), I("STA", "Absolute"),
         I("STA", "IndirectY"), I("STA", "ZeropageX"), I("STA", "AbsoluteY"), I("STA", "AbsoluteX") >>,
      << I("LDA", "Xindirect"), I("LDA", "Zeropage"), I("LDA", "Immediate"), I("LDA", "Absolute"),
         I("LDA", "IndirectY"), I("LDA", "ZeropageX"), I("LDA", "AbsoluteY"), I("LDA", "AbsoluteX") >>,
      << I("CMP", "Xindirect"), I("CMP", "Zeropage"), I("CMP", "Immediate"), I("CMP", "Absolute"),
         I("CMP", "IndirectY"), I("CMP", "ZeropageX"), I("CMP", "AbsoluteY"), I("CMP", "AbsoluteX") >>,
      << I("SBC", "Xindirect"), I("SBC", "Zeropage"), I("SBC", "Immediate"), I("SBC", "Absolute"),
         I("SBC", "IndirectY"), I("SBC", "ZeropageX"), I("SBC", "AbsoluteY"), I("SBC", "AbsoluteX") >>
    >>,
    \* Group 0b10
    <<
      << N("JAM"), I("ASL", "Zeropage"), N("ASLA"), I("ASL", "Absolute"),
         N("JAM"), I("ASL", "ZeropageX"), N("JAM"), I("ASL", "AbsoluteX") >>,
      << N("JAM"), I("ROL", "Zeropage"), N("ROLA"), I("ROL", "Absolute"),
         N("JAM"), I("ROL", "ZeropageX"), N("JAM"), I("ROL", "AbsoluteX") >>,
      << N("JAM"), I("LSR", "Zeropage"), N("LSRA"), I("LSR", "Absolute"),
         N("JAM"), I("LSR", "ZeropageX"), N("JAM"), I("LSR", "AbsoluteX") >>,
      << N("JAM"), I("ROR", "Zeropage"), N("RORA"), I("ROR", "Absolute"),
         N("JAM"), I("ROR", "ZeropageX"), N("JAM"), I("ROR", "AbsoluteX") >>,
      << N("JAM"), I("STX", "Zeropage"), N("TXA"), I("STX", "Absolute"),
         N("JAM"), I("STX", "ZeropageY"), N("TXS"), N("JAM") >>,
      << I("LDX", "Immediate"), I("LDX", "Zeropage"), N("TAX"), I("LDX", "Absolute"),
         N("JAM"), I("LDX", "ZeropageY"), N("TSX"), I("LDX", "AbsoluteY") >>,
      << N("JAM"), I("DEC", "Zeropage"), N("DEX"), I("DEC", "Absolute"),
         N("JAM"), I("DEC", "ZeropageX"), N("JAM"), I("DEC", "AbsoluteX") >>,
      << N("JAM"), I("INC", "Zeropage"), N("NOP"), I("INC", "Absolute"),
         N("JAM"), I("INC", "ZeropageX"), N("JAM"), I("INC", "AbsoluteX") >>
    >>,
    \* Group 0b11
    <<
      << N("JAM"), N("JAM"), N("JAM"), N("JAM"),
         N("JAM"), N("JAM"), N("JAM"), N("JAM") >>,
      << N("JAM"), N("JAM"), N("JAM"), N("JAM"),
         N("JAM"), N("JAM"), N("JAM"), N("JAM") >>,
      << N("JAM"), N("JAM"), N("JAM"), N("JAM"),
         N("JAM"), N("JAM"), N("JAM"), N("JAM") >>,
      << N("JAM"), N("JAM"), N("JAM"), N("JAM"),
         N("JAM"), N("JAM"), N("JAM"), N("JAM") >>,
      << N("JAM"), N("JAM"), N("JAM"), N("JAM"),
         N("JAM"), N("JAM"), N("JAM"), N("JAM") >>,
      << N("JAM"), N("JAM"), N("JAM"), N("JAM"),
         N("JAM"), N("JAM"), N("JAM"), N("JAM") >>,
      << N("JAM"), N("JAM"), N("JAM"), N("JAM"),
         N("JAM"), N("JAM"), N("JAM"), N("JAM") >>,
      << N("JAM"), N("JAM"), N("JAM"), N("JAM"),
         N("JAM"), N("JAM"), N("JAM"), N("JAM") >>
    >>
  >>

\* the decoder, had it indexed the table by column first and row second
decode_insn_transposed(opcode) ==
    LET group == BitAnd(opcode, 3)
        two_octals == opcode \div 4
        lo_octal == BitAnd(two_octals, 7)
        hi_octal == two_octals \div 8
    IN  INSN_BY_GROUP[group + 1][lo_octal + 1][hi_octal + 1]

\* the decoder, had it taken the group from the lowest bit alone
decode_insn_one_bit_group(opcode) ==
    LET group == BitAnd(opcode, 1)
        two_octals == opcode \div 4
        lo_octal == BitAnd(two_octals, 7)
        hi_octal == two_octals \div 8
    IN  INSN_BY_GROUP[group + 1][hi_octal + 1][lo_octal + 1]

decode_insn(opcode) ==
    LET group == BitAnd(opcode, 3)
        two_octals == opcode \div 4
        lo_octal == BitAnd(two_octals, 7)
        hi_octal == two_octals \div 8
    IN  INSN_BY_GROUP[group + 1][hi_octal + 1][lo_octal + 1]

encode_insn(insn) ==
    CASE insn = I("ADC", "Absolute") -> 109
      [] insn = I("ADC", "AbsoluteX") -> 125
      [] insn = I("ADC", "AbsoluteY") -> 121
      [] insn = I("ADC", "Immediate") -> 105
      [] insn = I("ADC", "IndirectY") -> 113
      [] insn = I("ADC", "Xindirect") -> 97
      [] insn = I("ADC", "Zeropage") -> 101
      [] insn = I("ADC", "ZeropageX") -> 117
      [] insn = I("AND", "Absolute") -> 45
      [] insn = I("AND", "AbsoluteX") -> 61
      [] insn = I("AND", "AbsoluteY") -> 57
      [] insn = I("AND", "Immediate") -> 41
      [] insn = I("AND", "IndirectY") -> 49
      [] insn = I("AND", "Xindirect") -> 33
      [] insn = I("AND", "Zeropage") -> 37
      [] insn = I("AND", "ZeropageX") -> 53
      [] insn = I("ASL", "Absolute") -> 14
      [] insn = I("ASL", "AbsoluteX") -> 30
      [] insn = N("ASLA") -> 10
      [] insn = I("ASL", "Zeropage") -> 6
      [] insn = I("ASL", "ZeropageX") -> 22
      [] insn = I("BCC", "Relative") -> 144
      [] insn = I("BCS", "Relative") -> 176
      [] insn = I("BEQ", "Relative") -> 240
      [] insn = I("BIT", "Absolute") -> 44
      [] insn = I("BIT", "Zeropage") -> 36
      [] insn = I("BMI", "Relative") -> 48
      [] insn = I("BNE", "Relative") -> 208
      [] insn = I("BPL", "Relative") -> 16
      [] insn = N("BRK") -> 0
      [] insn = I("BVC", "Relative") -> 80
      [] insn = I("BVS", "Relative") -> 112
      [] insn = N("CLC") -> 24
      [] insn = N("CLD") -> 216
      [] insn = N("CLI") -> 88
      [] insn = N("CLV") -> 184
      [] insn = I("CMP", "Absolute") -> 205
      [] insn = I("CMP", "AbsoluteX") -> 221
      [] insn = I("CMP", "AbsoluteY") -> 217
      [] insn = I("CMP", "Immediate") -> 201
      [] insn = I("CMP", "IndirectY") -> 209
      [] insn = I("CMP", "Xindirect") -> 193
      [] insn = I("CMP", "Zeropage") -> 197
      [] insn = I("CMP", "ZeropageX") -> 213
      [] insn = I("CPX", "Absolute") -> 236
      [] insn = I("CPX", "Immediate") -> 224
      [] insn = I("CPX", "Zeropage") -> 228
      [] insn = I("CPY", "Absolute") -> 204
      [] insn = I("CPY", "Immediate") -> 192
      [] insn = I("CPY", "Zeropage") -> 196
      [] insn = I("DEC", "Absolute") -> 206
      [] insn = I("DEC", "AbsoluteX") -> 222
      [] insn = I("DEC", "Zeropage") -> 198
      [] insn = I("DEC", "ZeropageX") -> 214
      [] insn = N("DEX") -> 202
      [] insn = N("DEY") -> 136
      [] insn = I("EOR", "Absolute") -> 77
      [] insn = I("EOR", "AbsoluteX") -> 93
      [] insn = I("EOR", "AbsoluteY") -> 89
      [] insn = I("EOR", "Immediate") -> 73
      [] insn = I("EOR", "IndirectY") -> 81
      [] insn = I("EOR", "Xindirect") -> 65
      [] insn = I("EOR", "Zeropage") -> 69
      [] insn = I("EOR", "ZeropageX") -> 85
      [] insn = I("INC", "Absolute") -> 238
      [] insn = I("INC", "AbsoluteX") -> 254
      [] insn = I("INC", "Zeropage") -> 230
      [] insn = I("INC", "ZeropageX") -> 246
      [] insn = N("INX") -> 232
      [] insn = N("INY") -> 200
      [] insn = I("JMP", "Absolute") -> 76
      [] insn = I("JMP", "Indirect") -> 108
      [] insn = I("JSR", "Absolute") -> 32
      [] insn = I("LDA", "Absolute") -> 173
      [] insn = I("LDA", "AbsoluteX") -> 189
      [] insn = I("LDA", "AbsoluteY") -> 185
      [] insn = I("LDA", "Immediate") -> 169
      [] insn = I("LDA", "IndirectY") -> 177
      [] insn = I("LDA", "Xindirect") -> 161
      [] insn = I("LDA", "Zeropage") -> 165
      [] insn = I("LDA", "ZeropageX") -> 181
      [] insn = I("LDX", "Absolute") -> 174
      [] insn = I("LDX", "AbsoluteY") -> 190
      [] insn = I("LDX", "Immediate") -> 162
      [] insn = I("LDX", "Zeropage") -> 166
      [] insn = I("LDX", "ZeropageY") -> 182
      [] insn = I("LDY", "Absolute") -> 172
      [] insn = I("LDY", "AbsoluteX") -> 188
      [] insn = I("LDY", "Immediate") -> 160
      [] insn = I("LDY", "Zeropage") -> 164
      [] insn = I("LDY", "ZeropageX") -> 180
      [] insn = I("LSR", "Absolute") -> 78
      [] insn = I("LSR", "AbsoluteX") -> 94
      [] insn = N("LSRA") -> 74
      [] insn = I("LSR", "Zeropage") -> 70
      [] insn = I("LSR", "ZeropageX") -> 86
      [] insn = N("NOP") -> 234
      [] insn = I("ORA", "Absolute") -> 13
      [] insn = I("ORA", "AbsoluteX") -> 29
      [] insn = I("ORA", "AbsoluteY") -> 25
      [] insn = I("ORA", "Immediate") -> 9
      [] insn = I("ORA", "IndirectY") -> 17
      [] insn = I("ORA", "Xindirect") -> 1
      [] insn = I("ORA", "Zeropage") -> 5
      [] insn = I("ORA", "ZeropageX") -> 21
      [] insn = N("PHA") -> 72
      [] insn = N("PHP") -> 8
      [] insn = N("PLA") -> 104
      [] insn = N("PLP") -> 40
      [] insn = I("ROL", "Absolute") -> 46
      [] insn = I("ROL", "AbsoluteX") -> 62
      [] insn = N("ROLA") -> 42
      [] insn = I("ROL", "Zeropage") -> 38
      [] insn = I("ROL", "ZeropageX") -> 54
      [] insn = I("ROR", "Absolute") -> 110
      [] insn = I("ROR", "AbsoluteX") -> 126
      [] insn = N("RORA") -> 106
      [] insn = I("ROR", "Zeropage") -> 102
      [] insn = I("ROR", "ZeropageX") -> 118
      [] insn = N("RTI") -> 64
      [] insn = N("RTS") -> 96
      [] insn = I("SBC", "Absolute") -> 237
      [] insn = I("SBC", "AbsoluteX") -> 253
      [] insn = I("SBC", "AbsoluteY") -> 249
      [] insn = I("SBC", "Immediate") -> 233
      [] insn = I("SBC", "IndirectY") -> 241
      [] insn = I("SBC", "Xindirect") -> 225
      [] insn = I("SBC", "Zeropage") -> 229
      [] insn = I("SBC", "ZeropageX") -> 245
      [] insn = N("SEC") -> 56
      [] insn = N("SED") -> 248
      [] insn = N("SEI") -> 120
      [] insn = I("STA", "Absolute") -> 141
      [] insn = I("STA", "AbsoluteX") -> 157
      [] insn = I("STA", "AbsoluteY") -> 153
      [] insn = I("STA", "IndirectY") -> 145
      [] insn = I("STA", "Xindirect") -> 129
      [] insn = I("STA", "Zeropage") -> 133
      [] insn = I("STA", "ZeropageX") -> 149
      [] insn = I("STX", "Absolute") -> 142
      [] insn = I("STX", "Zeropage") -> 134
      [] insn = I("STX", "ZeropageY") -> 150
      [] insn = I("STY", "Absolute") -> 140
      [] insn = I("STY", "Zeropage") -> 132
      [] insn = I("STY", "ZeropageX") -> 148
      [] insn = N("TAX") -> 170
      [] insn = N("TAY") -> 168
      [] insn = N("TSX") -> 186
      [] insn = N("TXA") -> 138
      [] insn = N("TXS") -> 154
      [] insn = N("TYA") -> 152
      [] OTHER -> 255

(***************************************************************************)
(* BCD helpers (bcd.rs).                                                   *)
(***************************************************************************)
\* the conversion, had it packed the digits low digit first
u8_to_bcd_swapped(u) == IF u < 100 THEN BitOr(wrap8((u % 10) * 16), u \div 10) ELSE 0

u8_to_bcd(u) == IF u < 100 THEN BitOr(wrap8((u \div 10) * 16), u % 10) ELSE 0

bcd_to_u8(bcd) == (bcd \div 16) * 10 + BitAnd(bcd, 15)

(***************************************************************************)
(* The CPU engine (yamos6502.rs).  c is the Mos6502 structure.             *)
(***************************************************************************)
\* the structure with its register file replaced
with_rf(c, rf) == [c EXCEPT !.reg_file = rf]

Allow == "Allow"

Disallow == "Disallow"

\* what a closure yields when its u8 arithmetic overflows in a checked build
PANICKED == -1

\* the effective address, had the word of a zero-page pointer been read with
\* its high byte inside page zero, as the hardware reads it
get_effective_address_in_page(c, addr_mode) ==
    LET pc == c.reg_file.pc
        x == reg(c.reg_file, X)
        y == reg(c.reg_file, Y)
        adv(cc, n) == with_rf(cc, adjust_pc_by(cc.reg_file, n))
        word(cc, p) == from_le_bytes(cell(cc, p), cell(cc, wrap8(p + 1)))
    IN  CASE addr_mode \in {"Immediate", "Relative"} -> Ok(adv(c, 1), pc)
          [] addr_mode = "Indirect" ->
                Bind(read_u16(c, pc), LAMBDA c1, ptr :
                    Bind(read_u16(adv(c1, 2), ptr), LAMBDA c2, ea : Ok(c2, ea)))
          [] addr_mode = "Xindirect" ->
                Bind(read_u8(c, pc), LAMBDA c1, b : Ok(adv(c1, 1), word(c1, wrap8(b + x))))
          [] addr_mode = "IndirectY" ->
                Bind(read_u8(c, pc), LAMBDA c1, ptr : Ok(adv(c1, 1), wrap16(word(c1, ptr) + y)))
          [] addr_mode = "Absolute" ->
                Bind(read_u16(c, pc), LAMBDA c1, ea : Ok(adv(c1, 2), ea))
          [] addr_mode = "AbsoluteX" ->
                Bind(read_u16(c, pc), LAMBDA c1, w : Ok(adv(c1, 2), wrap16(w + x)))
          [] addr_mode = "AbsoluteY" ->
                Bind(read_u16(c, pc), LAMBDA c1, w : Ok(adv(c1, 2), wrap16(w + y)))
          [] addr_mode = "Zeropage" ->
                Bind(read_u8(c, pc), LAMBDA c1, ea : Ok(adv(c1, 1), ea))
          [] addr_mode = "ZeropageX" ->
                Bind(read_u8(c, pc), LAMBDA c1, b : Ok(adv(c1, 1), wrap8(b + x)))
          [] addr_mode = "ZeropageY" ->
                Bind(read_u8(c, pc), LAMBDA c1, b : Ok(adv(c1, 1), wrap8(b + y)))

get_effective_address(c, addr_mode) ==
    LET pc == c.reg_file.pc
        x == reg(c.reg_file, X)
        y == reg(c.reg_file, Y)
        adv(cc, n) == with_rf(cc, adjust_pc_by(cc.reg_file, n))
    IN  CASE addr_mode \in {"Immediate", "Relative"} -> Ok(adv(c, 1), pc)
          [] addr_mode = "Indirect" ->
                Bind(read_u16(c, pc), LAMBDA c1, ptr :
                    Bind(read_u16(adv(c1, 2), ptr), LAMBDA c2, ea : Ok(c2, ea)))
          [] addr_mode = "Xindirect" ->
                Bind(read_u8(c, pc), LAMBDA c1, b :
                    Bind(read_u16(adv(c1, 1), wrap8(b + x)), LAMBDA c2, ea : Ok(c2, ea)))
          [] addr_mode = "IndirectY" ->
                Bind(read_u8(c, pc), LAMBDA c1, ptr :
                    Bind(read_u16(adv(c1, 1), ptr), LAMBDA c2, w : Ok(c2, wrap16(w + y))))
          [] addr_mode = "Absolute" ->
                Bind(read_u16(c, pc), LAMBDA c1, ea : Ok(adv(c1, 2), ea))
          [] addr_mode = "AbsoluteX" ->
                Bind(read_u16(c, pc), LAMBDA c1, w : Ok(adv(c1, 2), wrap16(w + x)))
          [] addr_mode = "AbsoluteY" ->
                Bind(read_u16(c, pc), LAMBDA c1, w : Ok(adv(c1, 2), wrap16(w + y)))
          [] addr_mode = "Zeropage" ->
                Bind(read_u8(c, pc), LAMBDA c1, ea : Ok(adv(c1, 1), ea))
          [] addr_mode = "ZeropageX" ->
                Bind(read_u8(c, pc), LAMBDA c1, b : Ok(adv(c1, 1), wrap8(b + x)))
          [] addr_mode = "ZeropageY" ->
                Bind(read_u8(c, pc), LAMBDA c1, b : Ok(adv(c1, 1), wrap8(b + y)))

update_flags_nz(c, data) ==
    with_rf(c, set_flag_from_cond(set_flag_from_cond(c.reg_file, Zero, data = 0),
                                  Negative, as_i8(data) < 0))

\* the structure with one flag set from a condition
cpu_flag(c, flag, cond) == with_rf(c, set_flag_from_cond(c.reg_file, flag, cond))

\* Each read-modify helper takes the closure as a function of the byte and
\* yields the byte it read, from which the caller derives what the Rust
\* closure stored in its captured variables.
read_modify_to_reg(c, addr_mode, rg, modify) ==
    Bind(get_effective_address(c, addr_mode), LAMBDA c1, ea :
        Bind(read_u8(c1, ea), LAMBDA c2, value :
            LET nv == modify[value]
            IN  IF nv = PANICKED THEN Panic(c2)
                ELSE Ok(update_flags_nz(with_rf(c2, reg_mut(c2.reg_file, rg, nv)), nv),
                        value)))

\* the load, had it stored the byte without updating N and Z
mem_to_reg_flags_kept(c, addr_mode, rg) ==
    Bind(get_effective_address(c, addr_mode), LAMBDA c1, ea :
        Bind(read_u8(c1, ea), LAMBDA c2, value :
            Ok(with_rf(c2, reg_mut(c2.reg_file, rg, value)), value)))

mem_to_reg(c, addr_mode, rg) == read_modify_to_reg(c, addr_mode, rg, [v \in 0 .. U8_MAX |-> v])

\* the store, had it updated N and Z from the stored byte as a load does
reg_to_mem_flags_updated(c, rg, addr_mode) ==
    Bind(get_effective_address(c, addr_mode), LAMBDA c1, ea :
        Bind(write_u8(c1, ea, reg(c1.reg_file, rg)), LAMBDA c2, v :
            Ok(update_flags_nz(c2, reg(c2.reg_file, rg)), v)))

reg_to_mem(c, rg, addr_mode) ==
    Bind(get_effective_address(c, addr_mode), LAMBDA c1, ea :
        write_u8(c1, ea, reg(c1.reg_file, rg)))

\* the transfer, had it left the flags alone as TXS does
reg_to_reg_flags_kept(c, reg_src, reg_dst) ==
    with_rf(c, reg_mut(c.reg_file, reg_dst, reg(c.reg_file, reg_src)))

reg_to_reg(c, reg_src, reg_dst) ==
    LET c1 == with_rf(c, reg_mut(c.reg_file, reg_dst, reg(c.reg_file, reg_src)))
    IN  update_flags_nz(c1, reg(c1.reg_file, reg_dst))

read_modify_write_mem(c, addr_mode, modify) ==
    Bind(get_effective_address(c, addr_mode), LAMBDA c1, ea :
        Bind(read_u8(c1, ea), LAMBDA c2, value :
            Bind(write_u8(c2, ea, modify[value]), LAMBDA c3, u :
                Ok(update_flags_nz(c3, modify[value]), value))))

\* yields the pair << structure, byte read >>
read_modify_write_reg(c, rg, modify) ==
    LET value == reg(c.reg_file, rg)
        nv == modify[value]
    IN  << update_flags_nz(with_rf(c, reg_mut(c.reg_file, rg, nv)), nv), value >>

\* the push, had it decremented S before writing the byte
stack_push_u8_decrement_first(c, value) ==
    LET sp == reg(c.reg_file, S)
    IN  Bind(write_u8(c, STACK_BOTTOM + wrap8(sp + 255), value), LAMBDA c1, u :
            LET c2 == with_rf(c1, reg_mut(c1.reg_file, S, wrap8(sp + 255)))
            IN  IF sp = U8_MAX /\ c2.allow_stack_wraparound = Disallow
                THEN Err(c2, StackOverflow)
                ELSE Ok(c2, 0))

stack_push_u8(c, value) ==
    LET sp == reg(c.reg_file, S)
    IN  Bind(write_u8(c, STACK_BOTTOM + sp, value), LAMBDA c1, u :
            LET c2 == with_rf(c1, reg_mut(c1.reg_file, S, wrap8(sp + 255)))
            IN  IF sp = U8_MAX /\ c2.allow_stack_wraparound = Disallow
                THEN Err(c2, StackOverflow)
                ELSE Ok(c2, 0))

\* the pull, had it incremented S as a 16-bit value
stack_pull_u8_unwrapped(c) ==
    LET sp == reg(c.reg_file, S) + 1
    IN  IF wrap8(sp) = 0 /\ c.allow_stack_wraparound = Disallow
        THEN Err(c, StackUnderflow)
        ELSE Bind(read_u8(c, STACK_BOTTOM + sp), LAMBDA c1, value :
                Ok(with_rf(c1, reg_mut(c1.reg_file, S, wrap8(sp))), value))

stack_pull_u8(c) ==
    LET sp == wrap8(reg(c.reg_file, S) + 1)
    IN  IF sp = 0 /\ c.allow_stack_wraparound = Disallow
        THEN Err(c, StackUnderflow)
        ELSE Bind(read_u8(c, STACK_BOTTOM + sp), LAMBDA c1, value :
                Ok(with_rf(c1, reg_mut(c1.reg_file, S, sp)), value))

\* the 16-bit push, had it pushed the low byte first
stack_push_u16_low_first(c, value) ==
    Bind(stack_push_u8(c, wrap8(value)), LAMBDA c1, u :
        Bind(stack_push_u8(c1, value \div 256), LAMBDA c2, w : Ok(c2, 0)))

stack_push_u16(c, value) ==
    Bind(stack_push_u8(c, value \div 256), LAMBDA c1, u :
        Bind(stack_push_u8(c1, wrap8(value)), LAMBDA c2, w : Ok(c2, 0)))

stack_pull_u16(c) ==
    Bind(stack_pull_u8(c), LAMBDA c1, lo :
        Bind(stack_pull_u8(c1), LAMBDA c2, hi : Ok(c2, from_le_bytes(lo, hi))))

\* the branch, had the offset been applied to the address of the offset byte
branch_from_operand(c, addr_mode, cond) ==
    IF cond
    THEN Bind(get_effective_address(c, addr_mode), LAMBDA c1, ea :
            Bind(read_u8(c1, ea), LAMBDA c2, b :
                Ok(with_rf(c2, adjust_pc_by(set_pc(c2.reg_file, ea), as_i8(b))), 0)))
    ELSE Ok(with_rf(c, adjust_pc_by(c.reg_file, 1)), 0)

branch(c, addr_mode, cond) ==
    IF cond
    THEN Bind(get_effective_address(c, addr_mode), LAMBDA c1, ea :
            Bind(read_u8(c1, ea), LAMBDA c2, b :
                Ok(with_rf(c2, adjust_pc_by(c2.reg_file, as_i8(b))), 0)))
    ELSE Ok(with_rf(c, adjust_pc_by(c.reg_file, 1)), 0)

\* the comparison, had it taken the carry from the signed order
compare_reg_mem_signed(c, rg, addr_mode) ==
    Bind(get_effective_address(c, addr_mode), LAMBDA c1, ea :
        Bind(read_u8(c1, ea), LAMBDA c2, memv :
            LET regv == reg(c2.reg_file, rg)
            IN  Ok(cpu_flag(update_flags_nz(c2, wrap8(regv + 256 - memv)),
                            Carry, as_i8(regv) >= as_i8(memv)), 0)))

compare_reg_mem(c, rg, addr_mode) ==
    Bind(get_effective_address(c, addr_mode), LAMBDA c1, ea :
        Bind(read_u8(c1, ea), LAMBDA c2, memv :
            LET regv == reg(c2.reg_file, rg)
            IN  Ok(cpu_flag(update_flags_nz(c2, wrap8(regv + 256 - memv)),
                            Carry, regv >= memv), 0)))

bit(c, addr_mode) ==
    Bind(get_effective_address(c, addr_mode), LAMBDA c1, ea :
        Bind(read_u8(c1, ea), LAMBDA c2, data :
            LET a == reg(c2.reg_file, A)
            IN  Ok(cpu_flag(cpu_flag(cpu_flag(c2,
                        Zero, BitAnd(data, a) = 0),
                        Negative, BitAnd(data, mask(Negative)) # 0),
                        Overflow, BitAnd(data, mask(Overflow)) # 0), 0)))

\* the closures of the shift and rotate instructions
lsr_modify(v) == v \div 2

asl_modify(v) == wrap8(v * 2)

rotate_left(v) == wrap8(v * 2) + v \div 128

rotate_right(v) == v \div 2 + (v % 2) * 128

\* the closure of rol, had it always cleared bit 0
rol_modify_shift(v, carry_set) == BitAnd(rotate_left(v), 254)

rol_modify(v, carry_set) ==
    IF carry_set THEN BitOr(rotate_left(v), 1) ELSE BitAnd(rotate_left(v), 254)

\* the closure of ror, had it kept the bit rotate_right() brings round
ror_modify_circular(v, carry_set) ==
    IF carry_set THEN BitOr(rotate_right(v), 128) ELSE rotate_right(v)

ror_modify(v, carry_set) ==
    IF carry_set THEN BitOr(rotate_right(v), 128) ELSE BitAnd(rotate_right(v), 127)

lsr(c, addr_mode) ==
    Bind(read_modify_write_mem(c, addr_mode, [v \in 0 .. U8_MAX |-> lsr_modify(v)]), LAMBDA c1, v :
        Ok(cpu_flag(c1, Carry, BitAnd(v, 1) # 0), 0))

lsra(c) ==
    LET r == read_modify_write_reg(c, A, [v \in 0 .. U8_MAX |-> lsr_modify(v)])
    IN  cpu_flag(r[1], Carry, BitAnd(r[2], 1) # 0)

rol(c, addr_mode) ==
    LET carry_set == flag_set(c.reg_file, Carry)
    IN  Bind(read_modify_write_mem(c, addr_mode, [v \in 0 .. U8_MAX |-> rol_modify(v, carry_set)]),
             LAMBDA c1, v : Ok(cpu_flag(c1, Carry, v \div 128 # 0), 0))

rola(c) ==
    LET carry_set == flag_set(c.reg_file, Carry)
        r == read_modify_write_reg(c, A, [v \in 0 .. U8_MAX |-> rol_modify(v, carry_set)])
    IN  cpu_flag(r[1], Carry, r[2] \div 128 # 0)

ror(c, addr_mode) ==
    LET carry_set == flag_set(c.reg_file, Carry)
    IN  Bind(read_modify_write_mem(c, addr_mode, [v \in 0 .. U8_MAX |-> ror_modify(v, carry_set)]),
             LAMBDA c1, v : Ok(cpu_flag(c1, Carry, BitAnd(v, 1) # 0), 0))

rora(c) ==
    LET carry_set == flag_set(c.reg_file, Carry)
        r == read_modify_write_reg(c, A, [v \in 0 .. U8_MAX |-> ror_modify(v, carry_set)])
    IN  cpu_flag(r[1], Carry, BitAnd(r[2], 1) # 0)

asl(c, addr_mode) ==
    Bind(read_modify_write_mem(c, addr_mode, [v \in 0 .. U8_MAX |-> asl_modify(v)]), LAMBDA c1, v :
        Ok(cpu_flag(c1, Carry, v \div 128 # 0), 0))

asla(c) ==
    LET r == read_modify_write_reg(c, A, [v \in 0 .. U8_MAX |-> asl_modify(v)])
    IN  cpu_flag(r[1], Carry, r[2] \div 128 # 0)

\* the closure of adc, had it taken the overflow from the operands' signs
\* differing instead of the result's sign differing from both
adc_closure_operand_signs(a, v, carry_in, decimal, overflow_in, checked) ==
    LET r == wrap16(wrap16(v + a) + carry_in)
    IN  [r |-> r,
         panic |-> FALSE,
         overflow |-> BitAnd(BitAnd(BitXor(a, v), BitXor(a, r)), 128) # 0,
         carry_out |-> BitAnd(r, 65280) # 0]

\* The closure of adc: what it leaves in r and in its captured variables,
\* given the accumulator a, the operand v, the carry and the flags on entry.
adc_closure(a, v, carry_in, decimal, overflow_in, checked) ==
    IF ~decimal
    THEN LET r == wrap16(wrap16(v + a) + carry_in)
         IN  [r |-> r,
              panic |-> FALSE,
              overflow |-> BitAnd(BitAnd(BitXor(a, r), BitXor(v, r)), 128) # 0,
              carry_out |-> BitAnd(r, 65280) # 0]
    ELSE LET sum == bcd_to_u8(a) + bcd_to_u8(v) + carry_in
             r0 == wrap8(sum)
             carry_out == r0 > 99
             r1 == IF carry_out THEN r0 - 100 ELSE r0
         IN  [r |-> u8_to_bcd(r1),
              panic |-> checked /\ sum > U8_MAX,
              overflow |-> overflow_in,
              carry_out |-> carry_out]

adc(c, addr_mode) ==
    LET decimal == flag_set(c.reg_file, Decimal)
        carry_in == IF flag_set(c.reg_file, Carry) THEN 1 ELSE 0
        overflow_in == flag_set(c.reg_file, Overflow)
        a == reg(c.reg_file, A)
        cl(v) == adc_closure(a, v, carry_in, decimal, overflow_in, c.overflow_checks)
    IN  Bind(read_modify_to_reg(c, addr_mode, A,
                                [v \in 0 .. U8_MAX |-> IF cl(v).panic THEN PANICKED ELSE wrap8(cl(v).r)]),
             LAMBDA c1, v :
                Ok(cpu_flag(cpu_flag(cpu_flag(cpu_flag(c1,
                        Carry, cl(v).carry_out),
                        Overflow, cl(v).overflow),
                        Negative, BitAnd(cl(v).r, 128) # 0),
                        Zero, BitAnd(cl(v).r, 255) = 0), 0))

\* the closure of sbc, had it subtracted the carry instead of its complement
sbc_closure_carry_subtracted(a, v, borrow_in, decimal, overflow_in) ==
    LET r == wrap16(wrap16(a + 65536 - v) + 65536 - (1 - borrow_in))
    IN  [r |-> r,
         overflow |-> BitAnd(BitAnd(BitXor(a, r), BitXor(BitNot16(v), r)), 128) # 0,
         borrow_out |-> BitAnd(r, 65280) # 0]

\* The closure of sbc, likewise.
sbc_closure(a, v, borrow_in, decimal, overflow_in) ==
    IF ~decimal
    THEN LET r == wrap16(wrap16(a + 65536 - v) + 65536 - borrow_in)
         IN  [r |-> r,
              overflow |-> BitAnd(BitAnd(BitXor(a, r), BitXor(BitNot16(v), r)), 128) # 0,
              borrow_out |-> BitAnd(r, 65280) # 0]
    ELSE LET r0 == as_i8(wrap8(wrap8(bcd_to_u8(a) + 256 - bcd_to_u8(v)) + 256 - borrow_in))
             borrow_out == r0 < 0
             r1 == IF borrow_out THEN r0 + 100 ELSE r0
         IN  [r |-> u8_to_bcd((r1 + 256) % 256),
              overflow |-> overflow_in,
              borrow_out |-> borrow_out]

sbc(c, addr_mode) ==
    LET decimal == flag_set(c.reg_file, Decimal)
        borrow_in == IF flag_set(c.reg_file, Carry) THEN 0 ELSE 1
        overflow_in == flag_set(c.reg_file, Overflow)
        a == reg(c.reg_file, A)
        cl(v) == sbc_closure(a, v, borrow_in, decimal, overflow_in)
    IN  Bind(read_modify_to_reg(c, addr_mode, A, [v \in 0 .. U8_MAX |-> wrap8(cl(v).r)]),
             LAMBDA c1, v :
                Ok(cpu_flag(cpu_flag(cpu_flag(cpu_flag(c1,
                        Carry, ~cl(v).borrow_out),
                        Overflow, cl(v).overflow),
                        Negative, BitAnd(cl(v).r, 128) # 0),
                        Zero, BitAnd(cl(v).r, 255) = 0), 0))

\* the status pushed by BRK and PHP, had the break flag not been forced on
pushed_by_software_unmarked(p) == BitOr(p, mask(AlwaysSet))

\* `p | Status::Break.mask() | Status::AlwaysSet.mask()`
pushed_by_software(p) == BitOr(BitOr(p, mask(Break)), mask(AlwaysSet))

\* `p & !Status::Break.mask() | Status::AlwaysSet.mask()`
pushed_by_interrupt(p) == BitOr(BitAnd(p, U8_MAX - mask(Break)), mask(AlwaysSet))

\* the status pulled by PLP and RTI, had bit 5 not been forced on
pull_status_unforced(c, value) ==
    with_rf(c, clear_flag(reg_mut(c.reg_file, P, value), Break))

\* the status pulled by PLP and RTI, had the break flag not been cleared
pull_status_with_break(c, value) ==
    with_rf(c, set_flag(reg_mut(c.reg_file, P, value), AlwaysSet))

\* `*reg_mut(P) = value; clear_flag(Break); set_flag(AlwaysSet)`
pull_status(c, value) ==
    with_rf(c, set_flag(clear_flag(reg_mut(c.reg_file, P, value), Break), AlwaysSet))

\* the match of step(): the arm of the decoded instruction
execute(c, insn) ==
    LET op == insn.op
        m == insn.mode
        rf == c.reg_file
        done(cc) == Ok(cc, 0)
        rmw_reg(rg, d) == read_modify_write_reg(c, rg, [v \in 0 .. U8_MAX |-> wrap8(v + d)])[1]
        a == reg(rf, A)
    IN  CASE op = "BRK" ->
                LET c1 == with_rf(c, adjust_pc_by(rf, 1))
                IN  Bind(stack_push_u16(c1, c1.reg_file.pc), LAMBDA c2, u :
                        Bind(stack_push_u8(c2, pushed_by_software(reg(c2.reg_file, P))),
                             LAMBDA c3, w :
                                Bind(read_u16(with_rf(c3, set_flag(c3.reg_file, InterruptDisable)),
                                              IRQ_BRK_VECTOR),
                                     LAMBDA c4, new_pc : done(with_rf(c4, set_pc(c4.reg_file, new_pc))))))
          [] op = "BCC" -> branch(c, m, ~flag_set(rf, Carry))
          [] op = "BCS" -> branch(c, m, flag_set(rf, Carry))
          [] op = "BNE" -> branch(c, m, ~flag_set(rf, Zero))
          [] op = "BEQ" -> branch(c, m, flag_set(rf, Zero))
          [] op = "BVC" -> branch(c, m, ~flag_set(rf, Overflow))
          [] op = "BVS" -> branch(c, m, flag_set(rf, Overflow))
          [] op = "BPL" -> branch(c, m, ~flag_set(rf, Negative))
          [] op = "BMI" -> branch(c, m, flag_set(rf, Negative))
          [] op = "BIT" -> bit(c, m)
          [] op = "CLC" -> done(with_rf(c, clear_flag(rf, Carry)))
          [] op = "CLD" -> done(with_rf(c, clear_flag(rf, Decimal)))
          [] op = "CLI" -> done(with_rf(c, clear_flag(rf, InterruptDisable)))
          [] op = "CLV" -> done(with_rf(c, clear_flag(rf, Overflow)))
          [] op = "CPX" -> compare_reg_mem(c, X, m)
          [] op = "CPY" -> compare_reg_mem(c, Y, m)
          [] op = "DEY" -> done(rmw_reg(Y, 255))
          [] op = "INX" -> done(rmw_reg(X, 1))
          [] op = "INY" -> done(rmw_reg(Y, 1))
          [] op = "JMP" ->
                Bind(get_effective_address(c, m), LAMBDA c1, ea :
                    done(with_rf(c1, set_pc(c1.reg_file, ea))))
          [] op = "JSR" ->
                Bind(get_effective_address(c, m), LAMBDA c1, ea :
                    Bind(stack_push_u16(c1, wrap16(c1.reg_file.pc + 65535)), LAMBDA c2, u :
                        done(with_rf(c2, set_pc(c2.reg_file, ea)))))
          [] op = "LDY" -> mem_to_reg(c, m, Y)
          [] op = "PHA" -> stack_push_u8(c, a)
          [] op = "PHP" -> stack_push_u8(c, pushed_by_software(reg(rf, P)))
          [] op = "PLA" ->
                Bind(stack_pull_u8(c), LAMBDA c1, value :
                    done(update_flags_nz(with_rf(c1, reg_mut(c1.reg_file, A, value)), value)))
          [] op = "PLP" ->
                Bind(stack_pull_u8(c), LAMBDA c1, value : done(pull_status(c1, value)))
          [] op = "RTI" ->
                Bind(stack_pull_u8(c), LAMBDA c1, value :
                    Bind(stack_pull_u16(pull_status(c1, value)), LAMBDA c2, pc :
                        done(with_rf(c2, set_pc(c2.reg_file, pc)))))
          [] op = "RTS" ->
                Bind(stack_pull_u16(c), LAMBDA c1, pc :
                    done(with_rf(c1, set_pc(c1.reg_file, wrap16(pc + 1)))))
          [] op = "SEC" -> done(with_rf(c, set_flag(rf, Carry)))
          [] op = "SED" -> done(with_rf(c, set_flag(rf, Decimal)))
          [] op = "SEI" -> done(with_rf(c, set_flag(rf, InterruptDisable)))
          [] op = "STY" -> reg_to_mem(c, Y, m)
          [] op = "TAY" -> done(reg_to_reg(c, A, Y))
          [] op = "TYA" -> done(reg_to_reg(c, Y, A))
          [] op = "ADC" -> adc(c, m)
          [] op = "AND" -> read_modify_to_reg(c, m, A, [v \in 0 .. U8_MAX |-> BitAnd(v, a)])
          [] op = "CMP" -> compare_reg_mem(c, A, m)
          [] op = "EOR" -> read_modify_to_reg(c, m, A, [v \in 0 .. U8_MAX |-> BitXor(v, a)])
          [] op = "LDA" -> mem_to_reg(c, m, A)
          [] op = "ORA" -> read_modify_to_reg(c, m, A, [v \in 0 .. U8_MAX |-> BitOr(v, a)])
          [] op = "SBC" -> sbc(c, m)
          [] op = "STA" -> reg_to_mem(c, A, m)
          [] op = "ASLA" -> done(asla(c))
          [] op = "ASL" -> asl(c, m)
          [] op = "DEC" -> read_modify_write_mem(c, m, [v \in 0 .. U8_MAX |-> wrap8(v + 255)])
          [] op = "DEX" -> done(rmw_reg(X, 255))
          [] op = "INC" -> read_modify_write_mem(c, m, [v \in 0 .. U8_MAX |-> wrap8(v + 1)])
          [] op = "LDX" -> mem_to_reg(c, m, X)
          [] op = "LSRA" -> done(lsra(c))
          [] op = "LSR" -> lsr(c, m)
          [] op = "NOP" -> done(c)
          [] op = "ROLA" -> done(rola(c))
          [] op = "ROL" -> rol(c, m)
          [] op = "RORA" -> done(rora(c))
          [] op = "ROR" -> ror(c, m)
          [] op = "STX" -> reg_to_mem(c, X, m)
          [] op = "TAX" -> done(reg_to_reg(c, A, X))
          [] op = "TSX" -> done(reg_to_reg(c, S, X))
          [] op = "TXA" -> done(reg_to_reg(c, X, A))
          [] op = "TXS" -> done(with_rf(c, reg_mut(rf, S, reg(rf, X))))
          [] op = "JAM" -> Err(c, InvalidInstruction(c.last_opcode))

\* `Ok(insn)` once the arm of the instruction has returned r without a fault
retire(r, insn) == IF r.st = "ok" THEN Ok(r.c, insn) ELSE r

\* step() from the decoded instruction on
step_decoded(c, insn) == retire(execute(c, insn), insn)

\* step() from the outcome of the opcode fetch on, had the fetch gone
\* through read_u8 and reported its failure as MemoryAccess
step_fetched_as_access(c, fetched) ==
    IF ~fetched.ok THEN Err(c, MemoryAccess(fetched.e))
    ELSE step_decoded(with_rf([c EXCEPT !.last_opcode = fetched.v],
                              adjust_pc_by(c.reg_file, 1)),
                      decode_insn(fetched.v))

\* step() from the outcome of the opcode fetch on
step_fetched(c, fetched) ==
    IF ~fetched.ok THEN Err(c, CannotFetchInstruction(fetched.e))
    ELSE step_decoded(with_rf([c EXCEPT !.last_opcode = fetched.v],
                              adjust_pc_by(c.reg_file, 1)),
                      decode_insn(fetched.v))

step(c) == step_fetched(c, mem_read(c, c.reg_file.pc))

(***************************************************************************)
(* run().  Its value is the structure it leaves, what it returns and the   *)
(* stages it entered.                                                      *)
(***************************************************************************)
NoInsn == N("-")

Executed(insn) == [tag |-> "Executed", insn |-> insn, err |-> None]

Interrupt == [tag |-> "Interrupt", insn |-> NoInsn, err |-> None]

NonMaskableInterrupt == [tag |-> "NonMaskableInterrupt", insn |-> NoInsn, err |-> None]

Error(e) == [tag |-> "Err", insn |-> NoInsn, err |-> e]

Panicked == [tag |-> "Panic", insn |-> NoInsn, err |-> None]

\* nothing returned yet
NoReturn == [tag |-> "-", insn |-> NoInsn, err |-> None]

Out(c, r, stages) == [c |-> c, ret |-> r, path |-> stages]

\* the reset body, had it read the vector without moving PC
run_reset_keep_pc(c) ==
    Bind(read_u16(c, RESET_VECTOR), LAMBDA c1, new_pc :
        Ok([c1 EXCEPT !.reg_file = reset(c1.reg_file),
                      !.fault = None,
                      !.reset_pending = FALSE], 0))

\* the body of `if self.reset_pending.load(..)`
run_reset(c) ==
    Bind(read_u16(c, RESET_VECTOR), LAMBDA c1, new_pc :
        Ok([c1 EXCEPT !.reg_file = reset(set_pc(c1.reg_file, new_pc)),
                      !.fault = None,
                      !.reset_pending = FALSE], 0))

\* the push sequence of the NMI and IRQ bodies, had it left I as it found it
dispatch_interruptible(c, vector) ==
    Bind(stack_push_u16(c, c.reg_file.pc), LAMBDA c1, u :
        Bind(stack_push_u8(c1, pushed_by_interrupt(reg(c1.reg_file, P))), LAMBDA c2, w :
            Bind(read_u16(c2, vector), LAMBDA c3, new_pc :
                Ok(with_rf(c3, set_pc(c3.reg_file, new_pc)), 0))))

\* the push sequence, had it pushed P the way BRK and PHP do (B set)
dispatch_as_software(c, vector) ==
    LET c0 == with_rf(c, set_flag(c.reg_file, InterruptDisable))
    IN  Bind(stack_push_u16(c0, c0.reg_file.pc), LAMBDA c1, u :
            Bind(stack_push_u8(c1, pushed_by_software(reg(c1.reg_file, P))), LAMBDA c2, w :
                Bind(read_u16(c2, vector), LAMBDA c3, new_pc :
                    Ok(with_rf(c3, set_pc(c3.reg_file, new_pc)), 0))))

\* the push sequence shared by the NMI and IRQ bodies, up to the vector read
dispatch(c, vector) ==
    LET c0 == with_rf(c, set_flag(c.reg_file, InterruptDisable))
    IN  Bind(stack_push_u16(c0, c0.reg_file.pc), LAMBDA c1, u :
            Bind(stack_push_u8(c1, pushed_by_interrupt(reg(c1.reg_file, P))), LAMBDA c2, w :
                Bind(read_u16(c2, vector), LAMBDA c3, new_pc :
                    Ok(with_rf(c3, set_pc(c3.reg_file, new_pc)), 0))))

\* the NMI body, had it returned without clearing nmi_pending
run_nmi_flag_kept(c) ==
    Bind(dispatch(c, NMI_VECTOR), LAMBDA c1, u : Ok(c1, 0))

\* the body of `if self.nmi_pending.load(..)`
run_nmi(c) ==
    Bind(dispatch(c, NMI_VECTOR), LAMBDA c1, u : Ok([c1 EXCEPT !.nmi_pending = FALSE], 0))

\* the body of `if !self.flag_set(InterruptDisable) && self.irq_pending.load(..)`
run_irq(c) ==
    Bind(dispatch(c, IRQ_BRK_VECTOR), LAMBDA c1, u : Ok([c1 EXCEPT !.irq_pending = FALSE], 0))

\* the match on the result of step(), had it not latched the stack errors
step_result_stack_unlatched(registers, r) ==
    IF r.st = "err"
    THEN [r EXCEPT !.c = [r.c EXCEPT
                            !.fault = IF r.e \in { StackOverflow, StackUnderflow }
                                      THEN None ELSE r.e,
                            !.reg_file = registers]]
    ELSE r

\* the match on the result r of step(): Err latches the fault and restores
\* the snapshot taken before the step
step_result(registers, r) ==
    IF r.st = "err"
    THEN [r EXCEPT !.c = [r.c EXCEPT !.fault = r.e, !.reg_file = registers]]
    ELSE r

\* the step stage, had it restored the registers without recording the fault
run_step_unlatched(c) ==
    LET registers == c.reg_file
        r == step(c)
    IN  IF r.st = "err"
        THEN [r EXCEPT !.c = [r.c EXCEPT !.reg_file = registers]]
        ELSE r

\* the step stage, had it latched the fault without restoring the snapshot
run_step_no_rollback(c) ==
    LET r == step(c)
    IN  IF r.st = "err"
        THEN [r EXCEPT !.c = [r.c EXCEPT !.fault = r.e]]
        ELSE r

\* the snapshot, step() and the rollback
run_step(c) == step_result(c.reg_file, step(c))

\* what run() returns for the result r of one of its stages
returned(r, exit) ==
    CASE r.st = "ok" -> exit
      [] r.st = "err" -> Error(r.e)
      [] r.st = "panic" -> Panicked

\* run() returning from the NMI or IRQ stage whose body gave r
leave(r, exit, stages) == Out(r.c, returned(r, exit), stages)

\* run() returning from the step stage whose match gave r
leave_step(r, stages) == Out(r.c, returned(r, Executed(r.v)), stages)

\* run() after the reset stage, had it polled the IRQ line before the NMI line
run_events_irq_first(c, stages) ==
    IF c.fault # None THEN Out(c, Error(c.fault), Append(stages, "fault"))
    ELSE IF ~flag_set(c.reg_file, InterruptDisable) /\ c.irq_pending
    THEN leave(run_irq(c), Interrupt, Append(stages, "irq"))
    ELSE IF c.nmi_pending
    THEN leave(run_nmi(c), NonMaskableInterrupt, Append(stages, "nmi"))
    ELSE leave_step(run_step(c), Append(stages, "step"))

\* run() after the reset stage, had the NMI and IRQ bodies not returned
run_events_fall_through(c, stages) ==
    IF c.fault # None THEN Out(c, Error(c.fault), Append(stages, "fault"))
    ELSE LET n == IF c.nmi_pending THEN run_nmi(c) ELSE Ok(c, 0)
             i == IF n.st = "ok" /\ ~flag_set(n.c.reg_file, InterruptDisable) /\ n.c.irq_pending
                  THEN run_irq(n.c) ELSE n
             r == IF i.st = "ok" THEN run_step(i.c) ELSE i
         IN  Out(r.c, returned(r, Executed(r.v)), Append(stages, "step"))

\* run() after the reset stage, had the IRQ test not looked at the I flag
run_events_unmasked(c, stages) ==
    IF c.fault # None THEN Out(c, Error(c.fault), Append(stages, "fault"))
    ELSE IF c.nmi_pending
    THEN leave(run_nmi(c), NonMaskableInterrupt, Append(stages, "nmi"))
    ELSE IF c.irq_pending
    THEN leave(run_irq(c), Interrupt, Append(stages, "irq"))
    ELSE leave_step(run_step(c), Append(stages, "step"))

\* run() after the reset stage
run_events(c, stages) ==
    IF c.fault # None THEN Out(c, Error(c.fault), Append(stages, "fault"))
    ELSE IF c.nmi_pending
    THEN leave(run_nmi(c), NonMaskableInterrupt, Append(stages, "nmi"))
    ELSE IF ~flag_set(c.reg_file, InterruptDisable) /\ c.irq_pending
    THEN leave(run_irq(c), Interrupt, Append(stages, "irq"))
    ELSE leave_step(run_step(c), Append(stages, "step"))

\* run() from the outcome r of the reset stage on; r is Ok when no reset
\* was pending
run_after_reset(r, stages) ==
    IF r.st = "ok" THEN run_events(r.c, stages)
    ELSE Out(r.c, Error(r.e), stages)

run(c) ==
    run_after_reset(IF c.reset_pending THEN run_reset(c) ELSE Ok(c, 0),
                    IF c.reset_pending THEN << "reset" >> ELSE << >>)

(***************************************************************************)
(* The host: the memory image, the construction of the CPU and the calls.  *)
(***************************************************************************)
\* the cells of an image loaded from << address, bytes >> segments
Image(segs) ==
    LET at(a) == CHOOSE i \in 1 .. Len(segs) :
                    a \in segs[i][1] .. (segs[i][1] + Len(segs[i][2]) - 1)
        used == UNION { segs[i][1] .. (segs[i][1] + Len(segs[i][2]) - 1) : i \in 1 .. Len(segs) }
    IN  [a \in { u \in used : segs[at(u)][2][u - segs[at(u)][1] + 1] # FILL_BYTE } |->
            segs[at(a)][2][a - segs[at(a)][1] + 1]]

\* The image the CPU runs.  Entry points:
\*   0x0200  CLI; JAM
\*   0x0210  LDA $E000; STA $F000
\*   0x0220  PHA; JSR $0300
\*   0x0230  PLA; RTS
\*   0x0300  RTI            (the NMI handler)
\*   0x0310  INX; CLI; RTI  (the IRQ and BRK handler)
\*   0xE000  BRK            (when the host memory lets it be read)
ProgramImage ==
    Image(<< << 512, << 88, 2 >> >>,
             << 528, << 173, 0, 224, 141, 0, 240 >> >>,
             << 544, << 72, 32, 0, 3 >> >>,
             << 560, << 104, 96 >> >>,
             << 768, << 64 >> >>,
             << 784, << 232, 88, 64 >> >>,
             << NMI_VECTOR, << 0, 3 >> >>,
             << RESET_VECTOR, << 0, 2 >> >>,
             << IRQ_BRK_VECTOR, << 16, 3 >> >> >>)

\* The host memories: the addresses that refuse to be read, and
\* RomRam::rom_start (ROM from 0xF000, or everything above the zero page).
HostMemories ==
    { [bad |-> {}, rom_start |-> 61440],
      [bad |-> {}, rom_start |-> 256],
      [bad |-> {57344}, rom_start |-> 61440],
      [bad |-> {NMI_VECTOR}, rom_start |-> 61440],
      [bad |-> {RESET_VECTOR + 1}, rom_start |-> 61440],
      [bad |-> {IRQ_BRK_VECTOR + 1}, rom_start |-> 61440] }

\* the register files handed to with_registers(), and the one new() builds
InitialRegisters ==
    { RegisterFile_new }
    \cup { [pc |-> t[1], r |-> << 170, 204, 210, t[2], t[3] >>] :
            t \in { << 512, 36, 255 >>, << 512, 219, 253 >>,
                    << 528, 36, 255 >>,
                    << 544, 36, 255 >>, << 544, 219, 253 >>, << 544, 219, 0 >>,
                    << 560, 36, 255 >>, << 560, 219, 253 >>, << 560, 219, 0 >>,
                    << 57344, 36, 255 >>, << 57344, 219, 253 >> } }

\* The structure as a record of the variables.  checked is the build
\* profile: TRUE when u8 arithmetic panics on overflow.
Cpu(checked) ==
    [ mem |-> mem, bad |-> bad, rom_start |-> rom_start, reg_file |-> reg_file,
      reset_pending |-> reset_pending, irq_pending |-> irq_pending,
      nmi_pending |-> nmi_pending, fault |-> fault, last_opcode |-> last_opcode,
      allow_stack_wraparound |-> allow_stack_wraparound,
      overflow_checks |-> checked ]

\* no run() is between the load of an event flag and the store that clears it
Closed == [event |-> "-", again |-> FALSE]

\* Mos6502::new and Mos6502::with_registers
Init ==
    /\ mem = ProgramImage
    /\ \E h \in HostMemories : bad = h.bad /\ rom_start = h.rom_start
    /\ reg_file \in InitialRegisters
    /\ reset_pending = FALSE
    /\ nmi_pending = FALSE
    /\ irq_pending = FALSE
    /\ fault = None
    /\ last_opcode = 0
    /\ allow_stack_wraparound \in { Allow, Disallow }
    /\ ret = NoReturn
    /\ path = << >>
    /\ old = Cpu(FALSE)
    /\ out = Cpu(FALSE)
    /\ calls = 0
    /\ window = Closed

alive == ret.tag # "Panic"

set_irq_pending ==
    /\ alive
    /\ irq_pending' = TRUE
    /\ window' = IF window.event = "irq" THEN [window EXCEPT !.again = TRUE] ELSE window
    /\ UNCHANGED << mem, bad, rom_start, reg_file, reset_pending, nmi_pending, fault,
                    last_opcode, allow_stack_wraparound, ret, path, old, out, calls >>

set_reset_pending ==
    /\ alive
    /\ reset_pending' = TRUE
    /\ UNCHANGED << mem, bad, rom_start, reg_file, irq_pending, nmi_pending, fault,
                    last_opcode, allow_stack_wraparound, ret, path, old, out, calls,
                    window >>

set_nmi_pending ==
    /\ alive
    /\ nmi_pending' = TRUE
    /\ window' = IF window.event = "nmi" THEN [window EXCEPT !.again = TRUE] ELSE window
    /\ UNCHANGED << mem, bad, rom_start, reg_file, reset_pending, irq_pending, fault,
                    last_opcode, allow_stack_wraparound, ret, path, old, out, calls >>

\* the host makes every address readable again
repair_memory ==
    /\ alive
    /\ bad # {}
    /\ bad' = {}
    /\ UNCHANGED << mem, rom_start, reg_file, reset_pending, irq_pending, nmi_pending,
                    fault, last_opcode, allow_stack_wraparound, ret, path, old, out, calls,
                    window >>

\* One call of run().  Whether an overflowing u8 addition panics or wraps
\* is decided by the build; both outcomes are explored.
Run ==
    /\ alive
    /\ calls < MaxRuns
    /\ window = Closed
    /\ \E checked \in BOOLEAN : \E o \in { run(Cpu(checked)) } :
           /\ mem' = o.c.mem
           /\ reg_file' = o.c.reg_file
           /\ reset_pending' = o.c.reset_pending
           /\ irq_pending' = o.c.irq_pending
           /\ nmi_pending' = o.c.nmi_pending
           /\ fault' = o.c.fault
           /\ last_opcode' = o.c.last_opcode
           /\ ret' = o.ret
           /\ path' = o.path
           /\ out' = [o.c EXCEPT !.overflow_checks = FALSE]
    /\ old' = Cpu(FALSE)
    /\ calls' = calls + 1
    /\ UNCHANGED << bad, rom_start, allow_stack_wraparound, window >>

Next ==
    \/ set_irq_pending
    \/ set_reset_pending
    \/ set_nmi_pending
    \/ repair_memory
    \/ Run

Spec == Init /\ [][Next]_vars

(***************************************************************************)
(* Single instructions.  A second family of behaviours: the host loads     *)
(* one instruction (any opcode byte followed by two operand bytes) at the  *)
(* address it hands to with_registers() as PC, over a data pattern, and    *)
(* calls run() once.                                                       *)
(***************************************************************************)
\* the two bytes that follow the opcode
Operands == { << 16, 3 >>, << 240, 0 >>, << 128, 255 >>, << 255, 255 >> }

\* where the opcode is loaded: 0x0200, 0x0000, and 0xFFFD where the operand
\* bytes end the address space
Origins == { 512, 0, 65533 }

\* the data the host loads: a pattern over the zero page, 0x0300..0x033F and
\* the stack cells the pulls read
DataImage ==
    [a \in { d \in (0 .. 255) \cup (256 .. 263) \cup (384 .. 391) \cup (768 .. 831) :
                (d * 37 + 11) % 256 # FILL_BYTE } |->
        (a * 37 + 11) % 256]

\* the cells once the instruction is loaded over the data
InsnImage(at, opcode, operand) ==
    store(store(store(DataImage, at, opcode),
                wrap16(at + 1), operand[1]),
          wrap16(at + 2), operand[2])

\* the values of A, X, Y, P and S handed to with_registers()
OperandRegisters ==
    { << 170, 4, 2, 32, 255 >>,
      << 0, 255, 144, 227, 0 >>,
      << 127, 16, 240, 0, 128 >>,
      << 153, 1, 255, 45, 2 >>,
      << 85, 0, 127, 195, 1 >> }

InitInsn ==
    /\ \E at \in Origins, opcode \in 0 .. U8_MAX, operand \in Operands, r \in OperandRegisters :
          /\ mem = InsnImage(at, opcode, operand)
          /\ reg_file = [pc |-> at, r |-> r]
    /\ bad = {}
    /\ rom_start = 61440
    /\ reset_pending = FALSE
    /\ nmi_pending = FALSE
    /\ irq_pending = FALSE
    /\ fault = None
    /\ last_opcode = 0
    /\ allow_stack_wraparound \in { Allow, Disallow }
    /\ ret = NoReturn
    /\ path = << >>
    /\ old = Cpu(FALSE)
    /\ out = Cpu(FALSE)
    /\ calls = 0
    /\ window = Closed

\* the one call of run()
RunInsn == calls = 0 /\ Run

SpecInsn == InitInsn /\ [][RunInsn]_vars

(***************************************************************************)
(* The arithmetic specification: one call of run() on an arithmetic        *)
(* instruction in immediate mode, over a set of accumulators and operand   *)
(* bytes, as test_alu() runs ADC and SBC.                                  *)
(***************************************************************************)

\* ADC #imm and SBC #imm, loaded at 0x0200
AluOpcodes == { 105, 233 }

\* the status bytes the instruction starts from: binary with carry clear and
\* set, decimal with carry and overflow clear, decimal with both set
AluStatus == { 32, 33, 40, 105 }

\* the accumulators and operand bytes: the ends of the range, the sign
\* boundary, the nibble boundaries and packed decimals around them
AluBytes ==
    { 0, 1, 2, 9, 10, 15, 16, 25, 69, 79, 80, 85, 102, 111, 126, 127,
      128, 129, 144, 153, 154, 160, 170, 176, 207, 208, 239, 240, 249, 250, 254, 255 }

InitAlu ==
    /\ \E opcode \in AluOpcodes, a \in AluBytes, m \in AluBytes, p \in AluStatus :
          /\ mem = store(store([d \in {} |-> FILL_BYTE], 512, opcode), 513, m)
          /\ reg_file = [pc |-> 512, r |-> << a, 0, 0, p, 255 >>]
    /\ bad = {}
    /\ rom_start = 61440
    /\ reset_pending = FALSE
    /\ nmi_pending = FALSE
    /\ irq_pending = FALSE
    /\ fault = None
    /\ last_opcode = 0
    /\ allow_stack_wraparound = Disallow
    /\ ret = NoReturn
    /\ path = << >>
    /\ old = Cpu(FALSE)
    /\ out = Cpu(FALSE)
    /\ calls = 0
    /\ window = Closed

SpecAlu == InitAlu /\ [][RunInsn]_vars

(***************************************************************************)
(* The byte specification: one call of run() on a shift, a rotate or a     *)
(* compare, loaded at 0x0200.  The shifts and rotates take every byte, in  *)
(* the accumulator or in the zero-page cell 0x10; the compares take their  *)
(* register and the immediate operand from AluBytes.                       *)
(***************************************************************************)

\* ASL, ROL, LSR and ROR on the accumulator
ShiftRegOpcodes == { 10, 42, 74, 106 }

\* ASL, ROL, LSR and ROR on a zero-page cell
ShiftMemOpcodes == { 6, 38, 70, 102 }

\* CPY #imm, CMP #imm and CPX #imm
CompareOpcodes == { 192, 201, 224 }

\* the status bytes: carry clear and set, with N and Z clear and set, and
\* with V, D and I set
ByteStatus == { 32, 33, 162, 163, 108, 109 }

InitByte ==
    /\ \/ \E opcode \in ShiftRegOpcodes, v \in 0 .. U8_MAX, p \in ByteStatus :
             /\ mem = store(store(store([d \in {} |-> FILL_BYTE], 512, opcode), 513, 16), 16, 90)
             /\ reg_file = [pc |-> 512, r |-> << v, 1, 2, p, 255 >>]
       \/ \E opcode \in ShiftMemOpcodes, v \in 0 .. U8_MAX, p \in ByteStatus :
             /\ mem = store(store(store([d \in {} |-> FILL_BYTE], 512, opcode), 513, 16), 16, v)
             /\ reg_file = [pc |-> 512, r |-> << 90, 1, 2, p, 255 >>]
       \/ \E opcode \in CompareOpcodes, rv \in AluBytes, m \in AluBytes, p \in ByteStatus :
             /\ mem = store(store([d \in {} |-> FILL_BYTE], 512, opcode), 513, m)
             /\ reg_file = [pc |-> 512,
                            r |-> << IF opcode = 201 THEN rv ELSE 90,
                                     IF opcode = 224 THEN rv ELSE 1,
                                     IF opcode = 192 THEN rv ELSE 2, p, 255 >>]
    /\ bad = {}
    /\ rom_start = 61440
    /\ reset_pending = FALSE
    /\ nmi_pending = FALSE
    /\ irq_pending = FALSE
    /\ fault = None
    /\ last_opcode = 0
    /\ allow_stack_wraparound = Disallow
    /\ ret = NoReturn
    /\ path = << >>
    /\ old = Cpu(FALSE)
    /\ out = Cpu(FALSE)
    /\ calls = 0
    /\ window = Closed

SpecByte == InitByte /\ [][RunInsn]_vars

(***************************************************************************)
(* The signalling specification: the event flags are atomics that a setter *)
(* may store to while run() executes.  A call that dispatches an NMI or an *)
(* IRQ is taken in two steps, the load that finds the flag true and the    *)
(* body ending with the store of false, and the setters interleave with    *)
(* them; the other calls are taken whole.                                  *)
(***************************************************************************)

\* run() up to `self.nmi_pending.load(..)` or `self.irq_pending.load(..)`
\* answering true, no reset being pending and no fault latched
RunLoad ==
    /\ alive
    /\ calls < MaxRuns
    /\ window = Closed
    /\ ~reset_pending
    /\ fault = None
    /\ \/ nmi_pending /\ window' = [event |-> "nmi", again |-> FALSE]
       \/ /\ ~nmi_pending
          /\ ~flag_set(reg_file, InterruptDisable)
          /\ irq_pending
          /\ window' = [event |-> "irq", again |-> FALSE]
    /\ old' = Cpu(FALSE)
    /\ UNCHANGED << mem, bad, rom_start, reg_file, reset_pending, irq_pending, nmi_pending,
                    fault, last_opcode, allow_stack_wraparound, ret, path, out, calls >>

\* the body entered by RunLoad, through its `store(false, ..)`, and the return
RunStore ==
    /\ window # Closed
    /\ \E o \in { IF window.event = "nmi"
                  THEN leave(run_nmi(Cpu(FALSE)), NonMaskableInterrupt, << "nmi" >>)
                  ELSE leave(run_irq(Cpu(FALSE)), Interrupt, << "irq" >>) } :
           /\ mem' = o.c.mem
           /\ reg_file' = o.c.reg_file
           /\ irq_pending' = o.c.irq_pending
           /\ nmi_pending' = o.c.nmi_pending
           /\ ret' = o.ret
           /\ path' = o.path
           /\ out' = o.c
    /\ window' = Closed
    /\ calls' = calls + 1
    /\ UNCHANGED << bad, rom_start, reset_pending, fault, last_opcode,
                    allow_stack_wraparound, old >>

NextSignal ==
    \/ set_irq_pending
    \/ set_nmi_pending
    \/ RunLoad
    \/ RunStore
    \/ Run

SpecSignal == Init /\ [][NextSignal]_vars

(***************************************************************************)
(* Vocabulary of the properties.  old, out, ret and path describe the last *)
(* run() call: the structure on entry, the structure on return, the value  *)
(* returned and the stages entered.                                        *)
(***************************************************************************)
called == calls > 0

\* the little-endian word stored at a and a + 1
mem16(c, a) == from_le_bytes(cell(c, a), cell(c, wrap16(a + 1)))

readable16(c, a) == a \notin c.bad /\ wrap16(a + 1) \notin c.bad

\* the last call found a reset pending and completed the reset stage
reset_handled == called /\ old.reset_pending /\ ~out.reset_pending

\* the last call found a reset pending and failed to read the reset vector
reset_failed == called /\ old.reset_pending /\ out.reset_pending

\* the register file the last call had after its reset stage
entry_rf ==
    IF reset_handled
    THEN reset(set_pc(old.reg_file, mem16(old, RESET_VECTOR)))
    ELSE old.reg_file

\* the latched fault the last call had after its reset stage
entry_fault == IF reset_handled THEN None ELSE old.fault

entry_I == flag_set(entry_rf, InterruptDisable)

\* the structure the last call had after its reset stage
entry_cpu ==
    [old EXCEPT !.reg_file = entry_rf, !.fault = entry_fault,
                !.reset_pending = old.reset_pending /\ ~reset_handled]

\* the addresses whose cells the last call changed
written == { a \in DOMAIN old.mem \cup DOMAIN out.mem : cell(old, a) # cell(out, a) }

\* the stack cell n pushes below the stack pointer the last call started from
pushed(n) == cell(out, STACK_BOTTOM + wrap8(reg(entry_rf, S) + 256 - n))

stage == IF path = << >> THEN "-" ELSE path[Len(path)]

Stages == { "fault", "nmi", "irq", "step" }

\* the call touched neither the registers, nor memory, nor the event flags
untouched ==
    /\ out.reg_file = old.reg_file
    /\ out.mem = old.mem
    /\ out.nmi_pending = old.nmi_pending
    /\ out.irq_pending = old.irq_pending
    /\ out.reset_pending = old.reset_pending
    /\ out.last_opcode = old.last_opcode

(***************************************************************************)
(* C1.  Every run() call attempts its work in the fixed order reset,       *)
(* latched-fault gate, NMI, IRQ, instruction step.  A latched fault that   *)
(* the reset stage of the same call did not clear ends the call before any *)
(* NMI or IRQ is serviced and before any opcode is fetched; a pending NMI  *)
(* is dispatched in preference to a pending unmasked IRQ, which stays      *)
(* pending; an opcode is fetched only when no NMI is pending and no IRQ is *)
(* pending with I = 0.                                                     *)
(***************************************************************************)
C1_PriorityOrder ==
    called =>
        /\ path \in { << "reset" >> } \cup { << s >> : s \in Stages }
                    \cup { << "reset", s >> : s \in Stages }
        /\ (path[1] = "reset") <=> old.reset_pending
        /\ reset_failed => path = << "reset" >> /\ untouched /\ out.fault = old.fault
        /\ (old.fault # None /\ ~reset_handled) =>
              /\ stage \in { "reset", "fault" }
              /\ untouched
              /\ out.fault = old.fault
              /\ ~old.reset_pending => ret = Error(old.fault)
        /\ (entry_fault = None /\ ~reset_failed /\ old.nmi_pending) =>
              /\ stage = "nmi"
              /\ ret.tag \in { "NonMaskableInterrupt", "Err" }
              /\ out.irq_pending = old.irq_pending
              /\ out.last_opcode = old.last_opcode
        /\ (entry_fault = None /\ ~reset_failed /\ ~old.nmi_pending
                /\ old.irq_pending /\ ~entry_I) =>
              /\ stage = "irq"
              /\ ret.tag \in { "Interrupt", "Err" }
              /\ out.last_opcode = old.last_opcode
        /\ (stage = "step" \/ ret.tag = "Executed") =>
              /\ stage = "step"
              /\ entry_fault = None
              /\ ~old.nmi_pending
              /\ ~(old.irq_pending /\ ~entry_I)
              /\ out.nmi_pending = old.nmi_pending
              /\ out.irq_pending = old.irq_pending

\* a call that found reset, NMI and an unmasked-before-reset IRQ pending and
\* a latched fault: the reset cleared the fault, the NMI was dispatched and
\* the IRQ is still pending
C1_Witness ==
    /\ called
    /\ old.fault # None
    /\ old.reset_pending /\ old.nmi_pending /\ old.irq_pending
    /\ path = << "reset", "nmi" >>
    /\ ret = NonMaskableInterrupt
    /\ out.irq_pending

(***************************************************************************)
(* C2.  An error produced by step is latched as the fault.  Between calls  *)
(* the fault stays as the call left it.  A call that finds a fault and no  *)
(* reset pending returns that same error and changes neither the register  *)
(* file, nor memory, nor the pending NMI and IRQ flags, nor the fault.  A  *)
(* call that finds a fault and a reset pending, with a readable reset      *)
(* vector, clears the fault and goes on to the NMI, IRQ or step stage; the *)
(* fault it leaves is the error of its own step, if any.                   *)
(***************************************************************************)
C2_FaultLatched ==
    called =>
        /\ fault = out.fault
        /\ (stage = "step" /\ ret.tag = "Err") =>
              /\ ret.err.kind \in { "InvalidInstruction", "CannotFetchInstruction",
                                    "MemoryAccess", "StackOverflow", "StackUnderflow" }
              /\ out.fault = ret.err
        /\ (old.fault # None /\ ~old.reset_pending) =>
              /\ ret = Error(old.fault)
              /\ out.reg_file = old.reg_file
              /\ out.mem = old.mem
              /\ out.nmi_pending = old.nmi_pending
              /\ out.irq_pending = old.irq_pending
              /\ out.fault = old.fault
        /\ (old.fault # None /\ old.reset_pending /\ readable16(old, RESET_VECTOR)) =>
              /\ reset_handled
              /\ stage \in { "nmi", "irq", "step" }
              /\ out.fault = IF stage = "step" /\ ret.tag = "Err" THEN ret.err ELSE None

\* the third call: the first executed CLI, the step of the second jammed on
\* the JAM opcode, and the third returned the latched error although an NMI
\* and an unmasked IRQ were pending
C2_Witness ==
    /\ calls = 3
    /\ old.fault = InvalidInstruction(2)
    /\ ~old.reset_pending
    /\ old.nmi_pending
    /\ old.irq_pending
    /\ ~flag_set(old.reg_file, InterruptDisable)
    /\ ret = Error(InvalidInstruction(2))
    /\ out.nmi_pending
    /\ fault = InvalidInstruction(2)

C4_ExactlyOne ==
    (called /\ ret.tag \notin { "Err", "Panic" }) =>
        /\ ret.tag \in { "Executed", "Interrupt", "NonMaskableInterrupt" }
        /\ ~out.reset_pending
        /\ out.fault = None
        /\ ret.tag = "Executed" =>
              /\ stage = "step"
              /\ out.last_opcode = cell(old, entry_rf.pc)
              /\ ret.insn = decode_insn(out.last_opcode)
              /\ \A one \in { step(entry_cpu) } :
                    one.st = "ok" /\ out.reg_file = one.c.reg_file /\ out.mem = one.c.mem
              /\ out.nmi_pending = old.nmi_pending
              /\ out.irq_pending = old.irq_pending
        /\ ret.tag = "Interrupt" =>
              /\ stage = "irq"
              /\ old.irq_pending /\ ~out.irq_pending
              /\ out.nmi_pending = old.nmi_pending
              /\ out.last_opcode = old.last_opcode
              /\ out.reg_file.pc = mem16(old, IRQ_BRK_VECTOR)
              /\ reg(out.reg_file, S) = wrap8(reg(entry_rf, S) + 256 - 3)
              /\ written \subseteq { STACK_BOTTOM + wrap8(reg(entry_rf, S) + 256 - n) : n \in 0 .. 2 }
        /\ ret.tag = "NonMaskableInterrupt" =>
              /\ stage = "nmi"
              /\ old.nmi_pending /\ ~out.nmi_pending
              /\ out.irq_pending = old.irq_pending
              /\ out.last_opcode = old.last_opcode
              /\ out.reg_file.pc = mem16(old, NMI_VECTOR)
              /\ reg(out.reg_file, S) = wrap8(reg(entry_rf, S) + 256 - 3)
              /\ written \subseteq { STACK_BOTTOM + wrap8(reg(entry_rf, S) + 256 - n) : n \in 0 .. 2 }

\* a call that found reset, NMI and IRQ pending: it returned after the NMI
\* dispatch, with the IRQ still pending and no opcode fetched
C4_Witness ==
    /\ called
    /\ old.reset_pending /\ old.nmi_pending /\ old.irq_pending
    /\ ret = NonMaskableInterrupt
    /\ ~out.reset_pending /\ ~out.nmi_pending /\ out.irq_pending
    /\ out.reg_file.pc = 768
    /\ out.last_opcode = old.last_opcode
    /\ written # {}

(***************************************************************************)
(* C5.  A call that has I = 1 after its reset stage never returns          *)
(* Interrupt and leaves a pending IRQ pending; with no fault latched and   *)
(* no NMI pending it goes to the step stage instead.  A call that finds an *)
(* IRQ pending, I = 0, no reset and no NMI pending and no fault latched    *)
(* (as after an instruction that retired leaving I = 0, e.g. CLI) fetches  *)
(* no opcode: either it returns Interrupt, clears irq_pending and leaves   *)
(* PC equal to the word at 0xFFFE, or a push or the vector read of the     *)
(* dispatch fails and it returns that error (MemoryAccess or               *)
(* StackOverflow), irq_pending stays set and no fault is latched.          *)
(***************************************************************************)
C5_IrqMasking ==
    (called /\ old.irq_pending) =>
        /\ entry_I =>
              /\ ret.tag # "Interrupt"
              /\ stage # "irq"
              /\ out.irq_pending
              /\ (entry_fault = None /\ ~old.nmi_pending /\ ~reset_failed) => stage = "step"
        /\ (~old.reset_pending /\ ~flag_set(old.reg_file, InterruptDisable)
                /\ ~old.nmi_pending /\ old.fault = None) =>
              /\ stage = "irq"
              /\ out.last_opcode = old.last_opcode
              /\ \/ /\ ret = Interrupt
                    /\ ~out.irq_pending
                    /\ out.reg_file.pc = mem16(old, IRQ_BRK_VECTOR)
                 \/ /\ ret.tag = "Err"
                    /\ ret.err.kind \in { "MemoryAccess", "StackOverflow" }
                    /\ out.irq_pending
                    /\ out.fault = None

\* the call after CLI retired at 0x0200 with an IRQ pending: it returned
\* Interrupt, cleared the flag and left PC at the handler 0x0310
C5_Witness ==
    /\ calls = 2
    /\ old.last_opcode = 88
    /\ old.reg_file.pc = 513
    /\ old.irq_pending
    /\ ~flag_set(old.reg_file, InterruptDisable)
    /\ ret = Interrupt
    /\ ~irq_pending
    /\ reg_file.pc = 784

\* C5 as claimed: while I = 1 a pending IRQ is not dispatched and stays
\* pending, and the call after an instruction that retired leaving I = 0,
\* with an IRQ and no NMI pending, returns Interrupt, clears irq_pending and
\* leaves PC equal to the word at 0xFFFE
C5_NextRunInterrupts ==
    [][ /\ (calls' = calls + 1 /\ irq_pending /\ fault = None /\ ~reset_pending
                /\ flag_set(reg_file, InterruptDisable)) =>
              /\ ret'.tag # "Interrupt"
              /\ irq_pending'
        /\ (calls' = calls + 1 /\ ret.tag = "Executed" /\ irq_pending /\ ~nmi_pending
                /\ ~reset_pending /\ ~flag_set(reg_file, InterruptDisable)) =>
              /\ ret' = Interrupt
              /\ ~irq_pending'
              /\ reg_file'.pc = mem16(Cpu(FALSE), IRQ_BRK_VECTOR) ]_vars

(***************************************************************************)
(* C6.  A call that finds nmi_pending set, no reset pending and no fault   *)
(* latched enters the NMI dispatch whatever the value of I, fetches no     *)
(* opcode, sets I = 1 and leaves A, X, Y and the other flags as they were. *)
(* Either it returns NonMaskableInterrupt, having pushed the interrupted   *)
(* PC (high byte first, then low byte) and then P as it is once I is set,  *)
(* with B clear and bit 5 set, loaded PC from the word at 0xFFFA, cleared  *)
(* nmi_pending and lowered S by 3 modulo 256; or a push or the vector read *)
(* fails and it returns that error (MemoryAccess or StackOverflow), with   *)
(* nmi_pending still set, no fault latched and PC as it was.               *)
(***************************************************************************)
C6_NmiDispatch ==
    (called /\ old.nmi_pending /\ ~old.reset_pending /\ old.fault = None) =>
        /\ stage = "nmi"
        /\ out.last_opcode = old.last_opcode
        /\ \A rg \in { A, X, Y } : reg(out.reg_file, rg) = reg(old.reg_file, rg)
        /\ reg(out.reg_file, P) = BitOr(reg(old.reg_file, P), mask(InterruptDisable))
        /\ out.irq_pending = old.irq_pending
        /\ \/ /\ ret = NonMaskableInterrupt
              /\ pushed(0) = old.reg_file.pc \div 256
              /\ pushed(1) = old.reg_file.pc % 256
              /\ pushed(2) = BitOr(BitAnd(reg(out.reg_file, P), U8_MAX - mask(Break)),
                                   mask(AlwaysSet))
              /\ reg(out.reg_file, S) = wrap8(reg(old.reg_file, S) + 256 - 3)
              /\ out.reg_file.pc = mem16(old, NMI_VECTOR)
              /\ ~out.nmi_pending
           \/ /\ ret.tag = "Err"
              /\ ret.err.kind \in { "MemoryAccess", "StackOverflow" }
              /\ out.nmi_pending
              /\ out.fault = None
              /\ out.reg_file.pc = old.reg_file.pc

\* an NMI taken at 0x0220 with P = 0xDB (B set, bit 5 and I clear) and
\* S = 0xFD: 0x02, 0x20 and 0xEF are on the stack, S = 0xFA, PC = 0x0300
C6_Witness ==
    /\ called
    /\ old.nmi_pending /\ ~old.reset_pending
    /\ old.reg_file.pc = 544
    /\ reg(old.reg_file, P) = 219
    /\ reg(old.reg_file, S) = 253
    /\ ret = NonMaskableInterrupt
    /\ cell(out, 509) = 2 /\ cell(out, 508) = 32 /\ cell(out, 507) = 239
    /\ reg(out.reg_file, S) = 250
    /\ reg(out.reg_file, P) = 223
    /\ out.reg_file.pc = 768

\* C6 as claimed: with nmi_pending set and no fault latched the call returns
\* NonMaskableInterrupt, with the frame pushed, I set, PC loaded from 0xFFFA,
\* nmi_pending cleared, S lower by 3 and A, X, Y unchanged
C6_NmiAlwaysReturned ==
    (called /\ old.nmi_pending /\ ~old.reset_pending /\ old.fault = None) =>
        /\ ret = NonMaskableInterrupt
        /\ pushed(0) = old.reg_file.pc \div 256
        /\ pushed(1) = old.reg_file.pc % 256
        /\ BitAnd(pushed(2), mask(Break)) = 0
        /\ BitAnd(pushed(2), mask(AlwaysSet)) = mask(AlwaysSet)
        /\ flag_set(out.reg_file, InterruptDisable)
        /\ out.reg_file.pc = mem16(old, NMI_VECTOR)
        /\ ~out.nmi_pending
        /\ reg(out.reg_file, S) = wrap8(reg(old.reg_file, S) + 256 - 3)
        /\ \A rg \in { A, X, Y } : reg(out.reg_file, rg) = reg(old.reg_file, rg)

(***************************************************************************)
(* C7.  Under Disallow a push returns StackOverflow exactly when S = 0x00  *)
(* and a pull returns StackUnderflow exactly when S = 0xFF, and pushes and *)
(* pulls at every other S succeed; under Allow no push or pull returns a   *)
(* stack error and S wraps modulo 256.  Stated of the one push of PHA      *)
(* (0x48) and the one pull of PLA (0x68), with the stack page in RAM.      *)
(***************************************************************************)
C7_StackBounds ==
    (called /\ stage = "step" /\ old.rom_start >= 2 * STACK_BOTTOM
            /\ entry_rf.pc \notin old.bad) =>
        LET s == reg(entry_rf, S)
            disallow == old.allow_stack_wraparound = Disallow
        IN  /\ out.last_opcode = 72 =>
                  IF disallow /\ s = 0
                  THEN ret = Error(StackOverflow)
                  ELSE /\ ret.tag = "Executed"
                       /\ reg(out.reg_file, S) = wrap8(s + 255)
            /\ out.last_opcode = 104 =>
                  IF disallow /\ s = U8_MAX
                  THEN ret = Error(StackUnderflow)
                  ELSE /\ ret.tag = "Executed"
                       /\ reg(out.reg_file, S) = wrap8(s + 1)

(***************************************************************************)
(* C8.  A call that finds a reset pending and a readable reset vector      *)
(* handles the reset, and the little-endian word w stored at 0xFFFC and    *)
(* 0xFFFD is the PC the rest of that call starts from: its step fetches    *)
(* the opcode at w, an NMI or IRQ it dispatches pushes w as the            *)
(* interrupted PC, and when the call returns an error PC is w.  When the   *)
(* step succeeds PC has moved on from w by the time the call returns.      *)
(***************************************************************************)
C8_ResetVector ==
    (called /\ old.reset_pending /\ readable16(old, RESET_VECTOR)) =>
        LET w == cell(old, RESET_VECTOR) + 256 * cell(old, RESET_VECTOR + 1)
        IN  /\ reset_handled
            /\ (stage = "step" /\ w \notin old.bad) => out.last_opcode = cell(old, w)
            /\ ret.tag = "Err" => out.reg_file.pc = w
            /\ ret.tag \in { "Interrupt", "NonMaskableInterrupt" } =>
                  /\ pushed(0) = w \div 256
                  /\ pushed(1) = w % 256
            /\ (ret.tag = "Executed" /\ ret.insn.op = "CLI") =>
                  out.reg_file.pc = wrap16(w + 1)

\* a reset handled with PC elsewhere: the call fetched CLI at the reset
\* vector target 0x0200 and returned with PC = 0x0201
C8_Witness ==
    /\ reset_handled
    /\ old.reg_file.pc = 57344
    /\ cell(old, 65532) = 0 /\ cell(old, 65533) = 2
    /\ ret.tag = "Executed"
    /\ out.last_opcode = 88
    /\ out.reg_file.pc = 513

\* C8 as claimed: when a call that handled a reset returns, PC equals the
\* little-endian word at 0xFFFC and 0xFFFD
C8_PcAtReturn ==
    reset_handled => out.reg_file.pc = mem16(old, RESET_VECTOR)

(***************************************************************************)
(* C9.  Servicing a reset sets I and bit 5 of P, clears D and leaves N, V, *)
(* Z and C with their values from before the reset, and does not modify A, *)
(* X, Y and S.  Stated of the calls whose return shows the registers the   *)
(* reset left: those that went on to execute the CLI at the reset vector   *)
(* target (which changes I alone) or to dispatch an NMI (which changes PC  *)
(* and S alone once I is set).                                             *)
(***************************************************************************)
C9_ResetContract ==
    (reset_handled /\ (ret = NonMaskableInterrupt \/ ret = Executed(N("CLI")))) =>
        /\ ret = NonMaskableInterrupt => flag_set(out.reg_file, InterruptDisable)
        /\ flag_set(out.reg_file, AlwaysSet)
        /\ ~flag_set(out.reg_file, Decimal)
        /\ \A f \in { Negative, Overflow, Zero, Carry } :
              flag_set(out.reg_file, f) = flag_set(old.reg_file, f)
        /\ \A rg \in { A, X, Y } : reg(out.reg_file, rg) = reg(old.reg_file, rg)
        /\ reg(out.reg_file, S) =
              IF ret = NonMaskableInterrupt THEN wrap8(reg(old.reg_file, S) + 256 - 3)
              ELSE reg(old.reg_file, S)

(***************************************************************************)
(* C10.  A call whose reset, NMI or IRQ vector read fails returns          *)
(* MemoryAccess(BadAddress), latches no fault and leaves the event flag    *)
(* pending; and once memory is readable, the next call services that       *)
(* event (no reset or higher-priority event having been signalled in       *)
(* between): it handles the reset, or enters the NMI dispatch, or enters   *)
(* the IRQ dispatch.                                                       *)
(***************************************************************************)
C10_VectorRetry ==
    [][ LET vector == [s \in { "reset", "nmi", "irq" } |->
                          CASE s = "reset" -> RESET_VECTOR
                            [] s = "nmi" -> NMI_VECTOR
                            [] s = "irq" -> IRQ_BRK_VECTOR]
            unread(s) == { MemoryAccess(BadAddress(a)) : a \in { vector[s], vector[s] + 1 } }
            failed(s) == called /\ stage = s /\ ret.tag = "Err" /\ ret.err \in unread(s)
        IN  /\ failed("reset")' => (fault' = old'.fault /\ reset_pending')
            /\ failed("nmi")' => (fault' = None /\ nmi_pending')
            /\ failed("irq")' => (fault' = None /\ irq_pending')
            /\ (calls' = calls + 1 /\ bad = {}) =>
                  /\ (failed("reset") /\ reset_pending) =>
                        (path'[1] = "reset" /\ ~reset_pending' /\ Len(path') = 2)
                  /\ (failed("nmi") /\ nmi_pending /\ ~reset_pending) =>
                        path' = << "nmi" >>
                  /\ (failed("irq") /\ irq_pending /\ ~reset_pending /\ ~nmi_pending) =>
                        path' = << "irq" >> ]_vars

C12_ErrorKinds ==
    (called /\ ret.tag = "Err") =>
        LET e == ret.err
            refused(m) ==
                \/ m.kind = "BadAddress" /\ m.addr \in old.bad
                \/ m.kind = "ReadOnlyAddress" /\ m.addr >= old.rom_start
            stack_error == e \in { StackOverflow, StackUnderflow }
                              /\ old.allow_stack_wraparound = Disallow
            opcode == cell(old, entry_rf.pc)
        IN  /\ stage = "step" =>
                  IF entry_rf.pc \in old.bad
                  THEN e = CannotFetchInstruction(BadAddress(entry_rf.pc))
                  ELSE IF decode_insn(opcode) = N("JAM")
                  THEN e = InvalidInstruction(opcode)
                  ELSE \/ e.kind = "MemoryAccess" /\ e = MemoryAccess(e.mem) /\ refused(e.mem)
                       \/ stack_error
            /\ stage = "reset" =>
                  e \in { MemoryAccess(BadAddress(a)) :
                            a \in { RESET_VECTOR, RESET_VECTOR + 1 } \cap old.bad }
            /\ stage \in { "nmi", "irq" } =>
                  \/ e.kind = "MemoryAccess" /\ e = MemoryAccess(e.mem) /\ refused(e.mem)
                  \/ e = StackOverflow /\ old.allow_stack_wraparound = Disallow
            /\ stage = "fault" => e = old.fault
            /\ stage \in Stages \cup { "reset" }

\* STA $F000 at 0x0213, after LDA $E000 retired: the write into ROM was
\* refused and the call returned MemoryAccess(ReadOnlyAddress(0xF000))
C12_Witness ==
    /\ calls = 2
    /\ stage = "step"
    /\ out.last_opcode = 141
    /\ old.reg_file.pc = 531
    /\ ret = Error(MemoryAccess(ReadOnlyAddress(61440)))
    /\ fault = MemoryAccess(ReadOnlyAddress(61440))

\* C12 as claimed: a failed opcode read yields CannotFetchInstruction, a JAM
\* opcode yields InvalidInstruction(opcode), and every other error run()
\* returns is MemoryAccess
C12_OnlyThreeKinds ==
    (called /\ ret.tag = "Err") =>
        /\ (stage = "step" /\ entry_rf.pc \in old.bad) =>
              ret.err = CannotFetchInstruction(BadAddress(entry_rf.pc))
        /\ (stage = "step" /\ entry_rf.pc \notin old.bad
                /\ decode_insn(cell(old, entry_rf.pc)) = N("JAM")) =>
              ret.err = InvalidInstruction(cell(old, entry_rf.pc))
        /\ ret.err.kind \in { "CannotFetchInstruction", "InvalidInstruction", "MemoryAccess" }

(***************************************************************************)
(* C13.  In every reachable state and under either policy a push accesses  *)
(* the one address 0x0100 + S and a pull the one address                   *)
(* 0x0100 + ((S + 1) mod 256), both within 0x0100..=0x01FF: with every     *)
(* address outside the page made inaccessible neither reports a memory     *)
(* error, with that one address made inaccessible both report it, and a    *)
(* push changes no other cell.  A call that dispatched an NMI or IRQ, or   *)
(* executed PHA, PHP, JSR or BRK, wrote within the page only.              *)
(***************************************************************************)
C13_StackPage ==
    LET page == STACK_BOTTOM .. (STACK_BOTTOM + U8_MAX)
        c == [Cpu(FALSE) EXCEPT !.rom_start = MAX_MEMORY_SIZE]
        fenced == [c EXCEPT !.bad = (0 .. (MAX_MEMORY_SIZE - 1)) \ page]
        push_at == STACK_BOTTOM + reg(reg_file, S)
        pull_at == STACK_BOTTOM + wrap8(reg(reg_file, S) + 1)
        pushing == stack_push_u8(fenced, 165)
        pulling == stack_pull_u8(fenced)
    IN  /\ push_at \in page
        /\ pull_at \in page
        /\ pushing.e.kind # "MemoryAccess"
        /\ pushing.c.mem = store(mem, push_at, 165)
        /\ stack_push_u8([c EXCEPT !.bad = { push_at }], 165).e = MemoryAccess(BadAddress(push_at))
        /\ pulling.e.kind # "MemoryAccess"
        /\ pulling.st = "ok" => pulling.v = cell(c, pull_at)
        /\ stack_pull_u8([c EXCEPT !.bad = { pull_at }]).e
              \in { MemoryAccess(BadAddress(pull_at)), StackUnderflow }
        /\ (called /\ (stage \in { "nmi", "irq" }
                        \/ (stage = "step" /\ out.last_opcode \in { 72, 8, 32, 0 }
                                /\ entry_rf.pc \notin old.bad))) =>
              written \subseteq page

\* PLA at 0x0230 with S = 0xFF under Allow: the pull wrapped to S = 0x00
\* and read 0x0100
C13_Witness ==
    /\ called
    /\ allow_stack_wraparound = Allow
    /\ out.last_opcode = 104
    /\ reg(old.reg_file, S) = U8_MAX
    /\ ret = Executed(N("PLA"))
    /\ reg(reg_file, S) = 0
    /\ reg(reg_file, A) = cell(old, STACK_BOTTOM)

C15_BreakNeverLive ==
    called =>
        /\ ~flag_set(RegisterFile_new, Break)
        /\ ~flag_set(old.reg_file, Break) => ~flag_set(out.reg_file, Break)
        /\ (ret.tag = "Executed" /\ ret.insn.op \in { "PLP", "RTI" }) =>
              reg(out.reg_file, P) =
                  BitOr(BitAnd(cell(old, STACK_BOTTOM + wrap8(reg(entry_rf, S) + 1)),
                               U8_MAX - mask(Break)),
                        mask(AlwaysSet))
        /\ ret = Executed(N("PHP")) =>
              /\ pushed(0) = BitOr(reg(entry_rf, P), mask(Break) + mask(AlwaysSet))
              /\ out.reg_file.r = [entry_rf.r EXCEPT ![S + 1] = wrap8(reg(entry_rf, S) + 255)]
        /\ ret = Executed(N("BRK")) =>
              /\ pushed(2) = BitOr(reg(entry_rf, P), mask(Break) + mask(AlwaysSet))
              /\ reg(out.reg_file, P) = BitOr(reg(entry_rf, P), mask(InterruptDisable))

\* PLP with S = 0x00: the byte pulled from 0x0101 is 0x30, with bit 4 set,
\* and the live P is 0x20
C15_Witness ==
    /\ called
    /\ ret = Executed(N("PLP"))
    /\ reg(old.reg_file, S) = 0
    /\ cell(old, STACK_BOTTOM + 1) = 48
    /\ reg(out.reg_file, P) = 32

(***************************************************************************)
(* C16.  For a branch (BCC/BCS/BNE/BEQ/BVC/BVS/BPL/BMI) with offset byte b *)
(* at address PC-at-operand: when it is taken, PC after the branch equals  *)
(* (PC-at-operand + 1 + sign_extend(b)) mod 2^16, the offset being         *)
(* relative to the instruction that follows; when it is not taken, PC      *)
(* equals (PC-at-operand + 1) mod 2^16.  The branch is taken exactly on    *)
(* its flag, and changes neither the other registers nor memory.           *)
(***************************************************************************)
C16_BranchTarget ==
    (called /\ ret.tag = "Executed" /\ ret.insn.mode = "Relative") =>
        LET at_operand == wrap16(old.reg_file.pc + 1)
            b == cell(old, at_operand)
            on(flag) == flag_set(old.reg_file, flag)
            taken == CASE ret.insn.op = "BCC" -> ~on(Carry)
                       [] ret.insn.op = "BCS" -> on(Carry)
                       [] ret.insn.op = "BNE" -> ~on(Zero)
                       [] ret.insn.op = "BEQ" -> on(Zero)
                       [] ret.insn.op = "BVC" -> ~on(Overflow)
                       [] ret.insn.op = "BVS" -> on(Overflow)
                       [] ret.insn.op = "BPL" -> ~on(Negative)
                       [] ret.insn.op = "BMI" -> on(Negative)
        IN  /\ out.reg_file.pc =
                  IF taken THEN (at_operand + 1 + as_i8(b) + 65536) % 65536
                  ELSE (at_operand + 1) % 65536
            /\ out.reg_file.r = old.reg_file.r
            /\ out.mem = old.mem

\* BNE at 0x0000 with Z clear and offset 0x80: PC-at-operand is 0x0001 and
\* the branch lands at 0xFF82
C16_Witness ==
    /\ called
    /\ ret = Executed(I("BNE", "Relative"))
    /\ old.reg_file.pc = 0
    /\ cell(old, 1) = 128
    /\ ~flag_set(old.reg_file, Zero)
    /\ out.reg_file.pc = 65410

\* C16 as claimed: a taken branch leaves PC = (PC-at-operand +
\* sign_extend(b)) mod 2^16, one not taken leaves PC = PC-at-operand + 1
C16_TargetFromOperand ==
    (called /\ ret.tag = "Executed" /\ ret.insn.mode = "Relative") =>
        LET at_operand == wrap16(old.reg_file.pc + 1)
            b == cell(old, at_operand)
        IN  out.reg_file.pc \in { (at_operand + as_i8(b) + 65536) % 65536,
                                  (at_operand + 1) % 65536 }

(***************************************************************************)
(* C17.  A call that finds reset_pending set, or reaches the test of       *)
(* nmi_pending or (with I = 0) of irq_pending and finds it set, enters     *)
(* the body of that event in the same call.  Either the body completes:    *)
(* the flag is cleared in that call, before any opcode is fetched (the     *)
(* NMI and IRQ bodies return without a fetch, the step after a reset       *)
(* fetches at the reset target); or a vector read or a push of the body    *)
(* fails: the call returns that error and the flag stays set.  A flag is   *)
(* cleared only by the call whose body for that event completed, and no    *)
(* call and no host operation other than run() clears or sets one behind   *)
(* it.                                                                     *)
(***************************************************************************)
C17_EventsServiced ==
    called =>
        LET seen_nmi == entry_fault = None /\ ~reset_failed /\ old.nmi_pending
            seen_irq == entry_fault = None /\ ~reset_failed /\ ~old.nmi_pending
                            /\ ~entry_I /\ old.irq_pending
        IN  /\ old.reset_pending =>
                  /\ path[1] = "reset"
                  /\ \/ /\ ~out.reset_pending
                        /\ Len(path) = 2
                        /\ (stage = "step" /\ entry_rf.pc \notin old.bad) =>
                              out.last_opcode = cell(old, mem16(old, RESET_VECTOR))
                     \/ /\ out.reset_pending
                        /\ ret.tag = "Err"
                        /\ ret.err.kind = "MemoryAccess"
                        /\ untouched
            /\ seen_nmi =>
                  /\ stage = "nmi"
                  /\ out.last_opcode = old.last_opcode
                  /\ \/ ret = NonMaskableInterrupt /\ ~out.nmi_pending
                     \/ ret.tag = "Err" /\ out.nmi_pending
            /\ seen_irq =>
                  /\ stage = "irq"
                  /\ out.last_opcode = old.last_opcode
                  /\ \/ ret = Interrupt /\ ~out.irq_pending
                     \/ ret.tag = "Err" /\ out.irq_pending
            /\ (old.reset_pending /\ ~out.reset_pending) <=> reset_handled
            /\ (old.nmi_pending /\ ~out.nmi_pending) <=> ret = NonMaskableInterrupt
            /\ (old.irq_pending /\ ~out.irq_pending) <=> ret = Interrupt
            /\ out.reset_pending => old.reset_pending /\ reset_pending
            /\ out.nmi_pending => old.nmi_pending /\ nmi_pending
            /\ out.irq_pending => old.irq_pending /\ irq_pending

\* a call that found a reset and an IRQ pending with I = 0: the reset was
\* serviced and set I, the IRQ was not looked at and is still pending, and
\* the CLI at the reset target was fetched after the reset flag was cleared
C17_Witness ==
    /\ called
    /\ old.reset_pending /\ old.irq_pending /\ ~old.nmi_pending
    /\ ~flag_set(old.reg_file, InterruptDisable)
    /\ path = << "reset", "step" >>
    /\ ret = Executed(N("CLI"))
    /\ ~out.reset_pending
    /\ out.irq_pending

\* C17 as claimed: a call that observes an event flag set services the
\* event and clears the flag before it returns
C17_AlwaysServiced ==
    called =>
        /\ old.reset_pending => ~out.reset_pending
        /\ (entry_fault = None /\ ~reset_failed /\ old.nmi_pending) =>
              ret = NonMaskableInterrupt /\ ~out.nmi_pending
        /\ (entry_fault = None /\ ~reset_failed /\ ~old.nmi_pending
                /\ ~entry_I /\ old.irq_pending) =>
              ret = Interrupt /\ ~out.irq_pending

(***************************************************************************)
(* C18.  For the opcode o a call fetched, whatever byte the host loaded at *)
(* PC: if decode_insn(o) is not JAM then encode_insn(decode_insn(o)) = o;  *)
(* and a call that returns Executed(insn) returns the decoding of o, which *)
(* is not JAM and encodes back to o.  Two valid opcodes that decoded to    *)
(* the same instruction would both be its encoding, so decode_insn is      *)
(* injective on the valid opcodes.                                         *)
(***************************************************************************)
C18_EncodeInvertsDecode ==
    (called /\ stage = "step") =>
        LET o == out.last_opcode
        IN  /\ o = cell(old, old.reg_file.pc)
            /\ decode_insn(o) # N("JAM") => encode_insn(decode_insn(o)) = o
            /\ ret.tag = "Executed" =>
                  /\ ret.insn = decode_insn(o)
                  /\ ret.insn # N("JAM")
                  /\ encode_insn(ret.insn) = o

\* LDX zp,Y (0xB6) loaded at PC: the call returned Executed(LDX(ZeropageY)),
\* which encodes to 0xB6
C18_Witness ==
    /\ called
    /\ cell(old, old.reg_file.pc) = 182
    /\ ret = Executed(I("LDX", "ZeropageY"))
    /\ encode_insn(ret.insn) = 182

(***************************************************************************)
(* C19.  For the opcode o a call fetched, whatever byte the host loaded at *)
(* PC: group = o mod 4, row = (o div 32) mod 8 and column = (o div 4)      *)
(* mod 8 index an entry of the table, decode_insn(o) is that entry, an     *)
(* instruction with an addressing mode or one without; and when            *)
(* o mod 4 = 3 it is JAM and the call returns InvalidInstruction(o).       *)
(***************************************************************************)
C19_DecodeTotal ==
    (called /\ stage = "step") =>
        LET o == out.last_opcode
            group == o % 4
            row == (o \div 32) % 8
            column == (o \div 4) % 8
        IN  /\ o \in 0 .. U8_MAX
            /\ group + 1 \in DOMAIN INSN_BY_GROUP
            /\ row + 1 \in DOMAIN INSN_BY_GROUP[group + 1]
            /\ column + 1 \in DOMAIN INSN_BY_GROUP[group + 1][row + 1]
            /\ decode_insn(o) = INSN_BY_GROUP[group + 1][row + 1][column + 1]
            /\ decode_insn(o).mode \in AddressMode \cup { "-" }
            /\ ret.tag = "Executed" => ret.insn = decode_insn(o)
            /\ group = 3 =>
                  /\ decode_insn(o) = N("JAM")
                  /\ ret = Error(InvalidInstruction(o))

\* 0xFF loaded at PC: it decodes to JAM and the call returned
\* InvalidInstruction(0xFF)
C19_Witness ==
    /\ called
    /\ cell(old, old.reg_file.pc) = 255
    /\ out.last_opcode = 255
    /\ decode_insn(255) = N("JAM")
    /\ ret = Error(InvalidInstruction(255))

(***************************************************************************)
(* C20.  A call that executes LDA, LDX or LDY, in any of its addressing    *)
(* modes, leaves the destination register equal to the byte at the         *)
(* effective address EA (Immediate: the operand byte; Zeropage: the        *)
(* operand; ZeropageX/Y: (operand + X or Y) mod 256; Absolute: the operand *)
(* word; AbsoluteX/Y: (word + X or Y) mod 2^16; Xindirect: the word at     *)
(* (operand + X) mod 256; IndirectY: (the word at the operand + Y)         *)
(* mod 2^16), Z set iff that byte is 0 and N equal to its bit 7; the other *)
(* registers, S, every other bit of P and memory are unchanged, and PC has *)
(* advanced by 1 plus the operand length (2 for the absolute modes, 1      *)
(* otherwise) modulo 2^16.                                                 *)
(***************************************************************************)
C20_Loads ==
    (called /\ ret.tag = "Executed" /\ ret.insn.op \in { "LDA", "LDX", "LDY" }) =>
        LET mode == ret.insn.mode
            at_operand == wrap16(old.reg_file.pc + 1)
            b == cell(old, at_operand)
            w == mem16(old, at_operand)
            x == reg(old.reg_file, X)
            y == reg(old.reg_file, Y)
            EA == CASE mode = "Immediate" -> at_operand
                    [] mode = "Zeropage" -> b
                    [] mode = "ZeropageX" -> (b + x) % 256
                    [] mode = "ZeropageY" -> (b + y) % 256
                    [] mode = "Absolute" -> w
                    [] mode = "AbsoluteX" -> (w + x) % 65536
                    [] mode = "AbsoluteY" -> (w + y) % 65536
                    [] mode = "Xindirect" -> mem16(old, (b + x) % 256)
                    [] mode = "IndirectY" -> (mem16(old, b) + y) % 65536
            length == IF mode \in { "Absolute", "AbsoluteX", "AbsoluteY" } THEN 2 ELSE 1
            dst == CASE ret.insn.op = "LDA" -> A
                     [] ret.insn.op = "LDX" -> X
                     [] ret.insn.op = "LDY" -> Y
            v == cell(old, EA)
            nz == mask(Negative) + mask(Zero)
        IN  /\ reg(out.reg_file, dst) = v
            /\ flag_set(out.reg_file, Zero) <=> v = 0
            /\ flag_set(out.reg_file, Negative) <=> v >= 128
            /\ \A rg \in { A, X, Y, S } \ { dst } : reg(out.reg_file, rg) = reg(old.reg_file, rg)
            /\ BitAnd(reg(out.reg_file, P), U8_MAX - nz) = BitAnd(reg(old.reg_file, P), U8_MAX - nz)
            /\ out.mem = old.mem
            /\ out.reg_file.pc = (old.reg_file.pc + 1 + length) % 65536

\* LDA $0310,X at 0x0200 with X = 4: A = mem[0x0314] = 0xEF, N set, Z
\* clear, PC = 0x0203
C20_Witness ==
    /\ called
    /\ ret = Executed(I("LDA", "AbsoluteX"))
    /\ old.reg_file = [pc |-> 512, r |-> << 170, 4, 2, 32, 255 >>]
    /\ mem16(old, 513) = 784
    /\ cell(old, 788) = 239
    /\ out.reg_file = [pc |-> 515, r |-> << 239, 4, 2, 160, 255 >>]


(***************************************************************************)
(* C21.  A call that executes STA, STX or STY, in any of its addressing    *)
(* modes, leaves memory equal to the memory before the call with the       *)
(* source register's value stored at the effective address EA, so that no  *)
(* other cell is written; A, X, Y, S and the whole of P are unchanged, and *)
(* PC has advanced by 1 plus the operand length modulo 2^16.               *)
(***************************************************************************)
C21_Stores ==
    (called /\ ret.tag = "Executed" /\ ret.insn.op \in { "STA", "STX", "STY" }) =>
        LET mode == ret.insn.mode
            at_operand == wrap16(old.reg_file.pc + 1)
            b == cell(old, at_operand)
            w == mem16(old, at_operand)
            x == reg(old.reg_file, X)
            y == reg(old.reg_file, Y)
            EA == CASE mode = "Zeropage" -> b
                    [] mode = "ZeropageX" -> (b + x) % 256
                    [] mode = "ZeropageY" -> (b + y) % 256
                    [] mode = "Absolute" -> w
                    [] mode = "AbsoluteX" -> (w + x) % 65536
                    [] mode = "AbsoluteY" -> (w + y) % 65536
                    [] mode = "Xindirect" -> mem16(old, (b + x) % 256)
                    [] mode = "IndirectY" -> (mem16(old, b) + y) % 65536
            length == IF mode \in { "Absolute", "AbsoluteX", "AbsoluteY" } THEN 2 ELSE 1
            src == CASE ret.insn.op = "STA" -> A
                     [] ret.insn.op = "STX" -> X
                     [] ret.insn.op = "STY" -> Y
        IN  /\ cell(out, EA) = reg(old.reg_file, src)
            /\ written \subseteq { EA }
            /\ out.reg_file.r = old.reg_file.r
            /\ out.reg_file.pc = (old.reg_file.pc + 1 + length) % 65536

\* STA $0310,X at 0x0200 with A = 0xAA and X = 4: the cell 0x0314 changes
\* from 0xEF to 0xAA and nothing else does but PC
C21_Witness ==
    /\ called
    /\ ret = Executed(I("STA", "AbsoluteX"))
    /\ old.reg_file = [pc |-> 512, r |-> << 170, 4, 2, 32, 255 >>]
    /\ cell(old, 788) = 239
    /\ written = { 788 }
    /\ cell(out, 788) = 170
    /\ out.reg_file = [pc |-> 515, r |-> << 170, 4, 2, 32, 255 >>]


(***************************************************************************)
(* C22.  A call that executes ADC #imm with D clear, from the accumulator  *)
(* A, the operand byte M and the carry C, forms R = A + M + C and leaves   *)
(* A = R mod 256, the carry equal to bit 8 of R, V set iff bit 7 of R      *)
(* differs from bit 7 of A and from bit 7 of M (i.e.                       *)
(* (A ^ R) & (M ^ R) & 0x80 # 0, which is signed overflow), Z set iff      *)
(* R mod 256 = 0 and N equal to bit 7 of R; X, Y, S, the bits D, I, B and  *)
(* 5 of P and memory are unchanged.                                        *)
(***************************************************************************)
C22_AdcBinary ==
    (/\ called
     /\ ret = Executed(I("ADC", "Immediate"))
     /\ ~flag_set(old.reg_file, Decimal)) =>
        LET a == reg(old.reg_file, A)
            m == cell(old, wrap16(old.reg_file.pc + 1))
            carry == IF flag_set(old.reg_file, Carry) THEN 1 ELSE 0
            R == a + m + carry
            nvzc == mask(Negative) + mask(Overflow) + mask(Zero) + mask(Carry)
        IN  /\ reg(out.reg_file, A) = R % 256
            /\ flag_set(out.reg_file, Carry) <=> Bit(R, 8) = 1
            /\ flag_set(out.reg_file, Overflow) <=>
                   (Bit(a, 7) # Bit(R, 7) /\ Bit(m, 7) # Bit(R, 7))
            /\ flag_set(out.reg_file, Overflow) <=>
                   as_i8(a) + as_i8(m) + carry
                       \notin -128 .. 127
            /\ flag_set(out.reg_file, Zero) <=> R % 256 = 0
            /\ flag_set(out.reg_file, Negative) <=> Bit(R, 7) = 1
            /\ \A rg \in { X, Y, S } : reg(out.reg_file, rg) = reg(old.reg_file, rg)
            /\ BitAnd(reg(out.reg_file, P), U8_MAX - nvzc)
                   = BitAnd(reg(old.reg_file, P), U8_MAX - nvzc)
            /\ out.mem = old.mem

\* the claim's example: A = 0x50, M = 0x50, C = 0 give A = 0xA0 with N and V
\* set, Z and C clear
C22_Witness ==
    /\ called
    /\ ret = Executed(I("ADC", "Immediate"))
    /\ reg(old.reg_file, A) = 80
    /\ cell(old, 513) = 80
    /\ reg(old.reg_file, P) = 32
    /\ reg(out.reg_file, A) = 160
    /\ reg(out.reg_file, P) = 32 + mask(Negative) + mask(Overflow)


(***************************************************************************)
(* C23.  When a call returns Interrupt or NonMaskableInterrupt and the     *)
(* next call executes the handler's RTI on the frame the dispatch pushed,  *)
(* PC is back at the interrupted address, S at its value before the        *)
(* interrupt, and each of N, V, D, I, Z, C at its value before the         *)
(* interrupt; in particular I is clear again if it was clear when the      *)
(* interrupt was taken.                                                    *)
(***************************************************************************)
C23_InterruptReturn ==
    [][ (/\ called
         /\ ret.tag \in { "Interrupt", "NonMaskableInterrupt" }
         /\ calls' = calls + 1
         /\ ret' = Executed(N("RTI"))) =>
            /\ reg_file'.pc = entry_rf.pc
            /\ reg(reg_file', S) = reg(entry_rf, S)
            /\ \A f \in { Negative, Overflow, Decimal, InterruptDisable, Zero, Carry } :
                  flag_set(reg_file', f) = flag_set(entry_rf, f) ]_vars


(***************************************************************************)
(* C24.  A call that returns an error from its NMI or IRQ dispatch (a      *)
(* stack error, a failed stack write or a failed vector read) leaves PC, S *)
(* and P, and with them the whole register file, as they were when the     *)
(* dispatch began, and leaves the event pending.                           *)
(***************************************************************************)
C24_DispatchErrorKeepsRegisters ==
    (called /\ ret.tag = "Err" /\ stage \in { "nmi", "irq" }) =>
        /\ out.reg_file = entry_rf
        /\ stage = "nmi" => out.nmi_pending
        /\ stage = "irq" => out.irq_pending


C26_EffectiveAddress ==
    (called /\ ret.tag = "Executed" /\ ret.insn.mode \in AddressMode) =>
        LET op == ret.insn.op
            mode == ret.insn.mode
            at_operand == wrap16(old.reg_file.pc + 1)
            word(a) == cell(old, a) + 256 * cell(old, (a + 1) % 65536)
            b == cell(old, at_operand)
            w == word(at_operand)
            x == reg(old.reg_file, X)
            y == reg(old.reg_file, Y)
            EA == CASE mode \in { "Immediate", "Relative" } -> at_operand
                    [] mode = "Zeropage" -> b
                    [] mode = "ZeropageX" -> (b + x) % 256
                    [] mode = "ZeropageY" -> (b + y) % 256
                    [] mode = "Absolute" -> w
                    [] mode = "AbsoluteX" -> (w + x) % 65536
                    [] mode = "AbsoluteY" -> (w + y) % 65536
                    [] mode = "Indirect" -> word(w)
                    [] mode = "Xindirect" -> word((b + x) % 256)
                    [] mode = "IndirectY" -> (word(b) + y) % 65536
            past == IF mode \in { "Absolute", "AbsoluteX", "AbsoluteY", "Indirect" }
                    THEN (at_operand + 2) % 65536
                    ELSE (at_operand + 1) % 65536
            r == get_effective_address(with_rf(old, adjust_pc_by(old.reg_file, 1)), mode)
        IN  /\ r.st = "ok" /\ r.v = EA /\ r.c.reg_file.pc = past
            /\ op \in { "LDA", "LDX", "LDY" } =>
                  reg(out.reg_file, CASE op = "LDA" -> A [] op = "LDX" -> X [] op = "LDY" -> Y)
                      = cell(old, EA)
            /\ op \in { "STA", "STX", "STY" } => written \subseteq { EA }
            /\ op = "JMP" => out.reg_file.pc = EA
            /\ (op \notin { "JMP", "JSR" } /\ mode # "Relative") => out.reg_file.pc = past

\* LDA ($FF),Y loaded at 0x0000 with Y = 2: the pointer's low byte is the
\* cell 0x00FF (0xE6) and its high byte the cell 0x0100 (0x0B), not the cell
\* 0x0000 (the opcode 0xB1): A = mem[0x0BE8]
C26_Witness ==
    /\ called
    /\ ret = Executed(I("LDA", "IndirectY"))
    /\ old.reg_file = [pc |-> 0, r |-> << 170, 4, 2, 32, 255 >>]
    /\ cell(old, 0) = 177
    /\ cell(old, 1) = 255
    /\ cell(old, 255) = 230
    /\ cell(old, 256) = 11
    /\ reg(out.reg_file, A) = cell(old, 3048)
    /\ out.reg_file.pc = 2


C29_PushPull ==
    LET s == reg(old.reg_file, S)
        a == reg(old.reg_file, A)
        p == reg(old.reg_file, P)
        at(n) == STACK_BOTTOM + wrap8(s + 256 + n)
        lower == [old.reg_file EXCEPT !.pc = wrap16(@ + 1), !.r[S + 1] = wrap8(s + 255)]
        higher == [old.reg_file EXCEPT !.pc = wrap16(@ + 1), !.r[S + 1] = wrap8(s + 1)]
        paired == s # 0 \/ allow_stack_wraparound = Allow
        nz(rf, v) == (flag_set(rf, Zero) <=> v = 0) /\ (flag_set(rf, Negative) <=> v >= 128)
        kept(v) == BitOr(BitAnd(v, U8_MAX - mask(Break)), mask(AlwaysSet))
    IN  /\ (called /\ ret = Executed(N("PHA"))) =>
              LET pla == execute(out, N("PLA"))
              IN  /\ cell(out, at(0)) = a
                  /\ written \subseteq { at(0) }
                  /\ out.reg_file = lower
                  /\ paired =>
                        /\ pla.st = "ok"
                        /\ reg(pla.c.reg_file, A) = a
                        /\ reg(pla.c.reg_file, S) = s
                        /\ nz(pla.c.reg_file, a)
        /\ (called /\ ret = Executed(N("PLA"))) =>
              /\ reg(out.reg_file, A) = cell(old, at(1))
              /\ nz(out.reg_file, cell(old, at(1)))
              /\ reg(out.reg_file, S) = wrap8(s + 1)
              /\ \A rg \in { X, Y } : reg(out.reg_file, rg) = reg(old.reg_file, rg)
              /\ out.mem = old.mem
        /\ (called /\ ret = Executed(N("PHP"))) =>
              LET plp == execute(out, N("PLP"))
              IN  /\ cell(out, at(0)) = BitOr(p, mask(Break) + mask(AlwaysSet))
                  /\ written \subseteq { at(0) }
                  /\ out.reg_file = lower
                  /\ paired =>
                        /\ plp.st = "ok"
                        /\ reg(plp.c.reg_file, P) = kept(p)
                        /\ reg(plp.c.reg_file, S) = s
        /\ (called /\ ret = Executed(N("PLP"))) =>
              /\ out.reg_file = [higher EXCEPT !.r[P + 1] = kept(cell(old, at(1)))]
              /\ out.mem = old.mem
        /\ (called /\ ret = Executed(I("JSR", "Absolute"))) =>
              /\ cell(out, at(0)) = wrap16(old.reg_file.pc + 2) \div 256
              /\ cell(out, at(-1)) = wrap8(old.reg_file.pc + 2)
        /\ (called /\ ret = Executed(N("RTS"))) =>
              out.reg_file.pc = wrap16(from_le_bytes(cell(old, at(1)), cell(old, at(2))) + 1)

\* PHA at 0x0200 with A = 0x99 and S = 0x02: 0x99 goes to 0x0102, S = 0x01,
\* and PLA from there gives A = 0x99, S = 0x02 with N set and Z clear
C29_Witness ==
    /\ called
    /\ ret = Executed(N("PHA"))
    /\ old.reg_file = [pc |-> 512, r |-> << 153, 1, 255, 45, 2 >>]
    /\ cell(out, 258) = 153
    /\ out.reg_file = [pc |-> 513, r |-> << 153, 1, 255, 45, 1 >>]
    /\ execute(out, N("PLA")).c.reg_file = [pc |-> 513, r |-> << 153, 1, 255, 173, 2 >>]


(***************************************************************************)
(* C30.  A call that executes SBC #imm with D clear, from the accumulator  *)
(* A, the operand byte M and the carry C, leaves the registers, A and      *)
(* every flag of P included, exactly as ADC #imm of M XOR 0xFF leaves them *)
(* from the same registers; A is (A - M - (1 - C)) mod 256 and the carry   *)
(* is set iff A >= M + (1 - C), i.e. iff no borrow occurred.               *)
(***************************************************************************)
C30_SbcAsAdc ==
    (/\ called
     /\ ret = Executed(I("SBC", "Immediate"))
     /\ ~flag_set(old.reg_file, Decimal)) =>
        LET pc == old.reg_file.pc
            a == reg(old.reg_file, A)
            m == cell(old, wrap16(pc + 1))
            carry == IF flag_set(old.reg_file, Carry) THEN 1 ELSE 0
            as_adc == run([old EXCEPT !.mem = store(store(old.mem, pc, 105),
                                                    wrap16(pc + 1), U8_MAX - m)])
        IN  /\ BitXor(m, U8_MAX) = U8_MAX - m
            /\ as_adc.ret = Executed(I("ADC", "Immediate"))
            /\ out.reg_file = as_adc.c.reg_file
            /\ reg(out.reg_file, A) = (a + 256 - m - (1 - carry)) % 256
            /\ flag_set(out.reg_file, Carry) <=> a >= m + (1 - carry)
            /\ out.mem = old.mem

\* the case test_alu() asserts: A = 0x90, M = 0x00, C = 0 give A = 0x8F with
\* C and N set, Z and V clear
C30_Witness ==
    /\ called
    /\ ret = Executed(I("SBC", "Immediate"))
    /\ reg(old.reg_file, A) = 144
    /\ cell(old, 513) = 0
    /\ reg(old.reg_file, P) = 32
    /\ reg(out.reg_file, A) = 143
    /\ reg(out.reg_file, P) = 32 + mask(Negative) + mask(Carry)


(***************************************************************************)
(* C31.  With D set and A and M packed decimals (both nibbles at most 9),  *)
(* a call that executes ADC #imm leaves A the packed decimal of            *)
(* (dec(A) + dec(M) + C) mod 100 and the carry set iff that sum exceeds    *)
(* 99; a call that executes SBC #imm leaves A the packed decimal of        *)
(* (dec(A) - dec(M) - (1 - C)) mod 100 and the carry clear iff that        *)
(* difference is negative; in both Z is set iff the new A is 0, N is bit 7 *)
(* of the new A and V is as before the instruction.                        *)
(***************************************************************************)
C31_Decimal ==
    (/\ called
     /\ ret \in { Executed(I("ADC", "Immediate")), Executed(I("SBC", "Immediate")) }
     /\ flag_set(old.reg_file, Decimal)
     /\ reg(old.reg_file, A) \div 16 <= 9 /\ reg(old.reg_file, A) % 16 <= 9
     /\ cell(old, wrap16(old.reg_file.pc + 1)) \div 16 <= 9
     /\ cell(old, wrap16(old.reg_file.pc + 1)) % 16 <= 9) =>
        LET dec(x) == (x \div 16) * 10 + (x % 16)
            enc(k) == (k \div 10) * 16 + (k % 10)
            a == dec(reg(old.reg_file, A))
            m == dec(cell(old, wrap16(old.reg_file.pc + 1)))
            carry == IF flag_set(old.reg_file, Carry) THEN 1 ELSE 0
            n == IF ret.insn.op = "ADC" THEN a + m + carry ELSE a - m - (1 - carry)
            result == reg(out.reg_file, A)
        IN  /\ result = enc((n + 100) % 100)
            /\ ret.insn.op = "ADC" => (flag_set(out.reg_file, Carry) <=> n > 99)
            /\ ret.insn.op = "SBC" => (flag_set(out.reg_file, Carry) <=> n >= 0)
            /\ flag_set(out.reg_file, Zero) <=> result = 0
            /\ flag_set(out.reg_file, Negative) <=> result >= 128
            /\ flag_set(out.reg_file, Overflow) <=> flag_set(old.reg_file, Overflow)

\* the case test_alu() asserts: with D set, 0x90 - 0x00 with C clear gives
\* 0x89 with C and N set
C31_Witness ==
    /\ called
    /\ ret = Executed(I("SBC", "Immediate"))
    /\ reg(old.reg_file, A) = 144
    /\ cell(old, 513) = 0
    /\ reg(old.reg_file, P) = 40
    /\ reg(out.reg_file, A) = 137
    /\ reg(out.reg_file, P) = 40 + mask(Negative) + mask(Carry)


(***************************************************************************)
(* C32.  With D set, whatever the bytes A and M and the carry C, the sum   *)
(* bcd_to_u8(A) + bcd_to_u8(M) + C that ADC forms fits in 8 bits, and the  *)
(* call that finds ADC #imm at PC returns Executed.                        *)
(***************************************************************************)
C32_DecimalAdcCompletes ==
    (/\ called
     /\ flag_set(old.reg_file, Decimal)
     /\ cell(old, old.reg_file.pc) = 105) =>
        /\ bcd_to_u8(reg(old.reg_file, A)) + bcd_to_u8(cell(old, wrap16(old.reg_file.pc + 1)))
              + (IF flag_set(old.reg_file, Carry) THEN 1 ELSE 0) <= U8_MAX
        /\ ret = Executed(I("ADC", "Immediate"))


(***************************************************************************)
(* C33.  Under Disallow a call whose push returns StackOverflow has        *)
(* written no memory cell and left S where it was, and a call whose pull   *)
(* returns StackUnderflow has left S and memory where they were.  Stated   *)
(* of the instructions that make one push or one pull: PHA (0x48), PHP     *)
(* (0x08), PLA (0x68) and PLP (0x28).                                      *)
(***************************************************************************)
C33_BoundBeforeAccess ==
    (/\ called
     /\ old.allow_stack_wraparound = Disallow
     /\ out.last_opcode \in { 72, 8, 104, 40 }
     /\ ret \in { Error(StackOverflow), Error(StackUnderflow) }) =>
        /\ written = {}
        /\ reg(out.reg_file, S) = reg(old.reg_file, S)


(***************************************************************************)
(* C34.  A call that returns Interrupt or NonMaskableInterrupt leaves I    *)
(* set; the call after one that returned Interrupt does not return         *)
(* Interrupt; and from a dispatch on, I stays set and no IRQ is dispatched *)
(* until a call executes an instruction that can clear I (CLI, PLP, RTI):  *)
(* a call entered with I set does not return Interrupt, and leaves I set   *)
(* unless it executed one of those three.                                  *)
(***************************************************************************)
C34_DispatchMasks ==
    [][ calls' = calls + 1 =>
          /\ ret'.tag \in { "Interrupt", "NonMaskableInterrupt" } =>
                flag_set(reg_file', InterruptDisable)
          /\ (called /\ ret.tag \in { "Interrupt", "NonMaskableInterrupt" }) =>
                /\ flag_set(reg_file, InterruptDisable)
                /\ ret'.tag # "Interrupt"
          /\ flag_set(reg_file, InterruptDisable) =>
                /\ ret'.tag # "Interrupt"
                /\ ret' \notin { Executed(N("CLI")), Executed(N("PLP")), Executed(N("RTI")) } =>
                      flag_set(reg_file', InterruptDisable) ]_vars

\* the call after an Interrupt return found the IRQ asserted again and
\* executed the first instruction of the handler instead of dispatching
C34_Witness ==
    /\ calls >= 2
    /\ old.irq_pending
    /\ flag_set(old.reg_file, InterruptDisable)
    /\ old.reg_file.pc = mem16(old, IRQ_BRK_VECTOR)
    /\ LET frame == cell(old, STACK_BOTTOM + wrap8(reg(old.reg_file, S) + 1))
       IN  BitAnd(frame, mask(Break) + mask(AlwaysSet)) = mask(AlwaysSet)
    /\ ret = Executed(N("INX"))
    /\ out.irq_pending
    /\ flag_set(out.reg_file, InterruptDisable)


(***************************************************************************)
(* C35.  ASL, LSR, ROL and ROR, on the accumulator and on memory, set C to *)
(* the bit shifted out (bit 7 for ASL and ROL, bit 0 for LSR and ROR),     *)
(* write the shifted byte with 0 (ASL, LSR) or the previous C (ROL, ROR)   *)
(* in the vacated bit, and set N and Z from the byte written; every other  *)
(* flag and register is left alone.                                        *)
(***************************************************************************)
C35_Shifts ==
    \A op \in { "ASL", "LSR", "ROL", "ROR" } :
        LET reg_form == ret = Executed(N(op \o "A"))
            mem_form == ret = Executed(I(op, "Zeropage"))
            ea       == cell(old, wrap16(old.reg_file.pc + 1))
            v        == IF reg_form THEN reg(old.reg_file, A) ELSE cell(old, ea)
            w        == IF reg_form THEN reg(out.reg_file, A) ELSE cell(out, ea)
            cin      == IF flag_set(old.reg_file, Carry) THEN 1 ELSE 0
            fill     == IF op \in { "ROL", "ROR" } THEN cin ELSE 0
            left     == op \in { "ASL", "ROL" }
        IN  (called /\ (reg_form \/ mem_form)) =>
                /\ w = IF left THEN wrap8(v * 2) + fill ELSE v \div 2 + 128 * fill
                /\ flag_set(out.reg_file, Carry) <=> (IF left THEN v \div 128 = 1 ELSE v % 2 = 1)
                /\ flag_set(out.reg_file, Zero) <=> w = 0
                /\ flag_set(out.reg_file, Negative) <=> w >= 128
                /\ \A f \in { Overflow, Decimal, InterruptDisable } :
                      flag_set(out.reg_file, f) <=> flag_set(old.reg_file, f)
                /\ \A rg \in { X, Y, S } : reg(out.reg_file, rg) = reg(old.reg_file, rg)
                /\ reg_form => written = {}
                /\ mem_form => (written \subseteq { ea }
                                  /\ reg(out.reg_file, A) = reg(old.reg_file, A))

\* ROR of 0x01 in the zero-page cell 0x10 with C set: 0x80 is written, C
\* stays set from bit 0, N is set
C35_Witness ==
    /\ called
    /\ ret = Executed(I("ROR", "Zeropage"))
    /\ cell(old, 16) = 1
    /\ reg(old.reg_file, P) = 33
    /\ cell(out, 16) = 128
    /\ reg(out.reg_file, P) = 33 + mask(Negative)


(***************************************************************************)
(* C36.  ROL and ROR on the accumulator are inverse rotations of the nine  *)
(* bits of A and C: RORA executed after a call that executed ROLA, and     *)
(* ROLA executed after a call that executed RORA, give back the A and the  *)
(* C the first instruction started from.                                   *)
(***************************************************************************)
C36_RotateInverse ==
    \A pair \in { << "ROLA", "RORA" >>, << "RORA", "ROLA" >> } :
        (called /\ ret = Executed(N(pair[1]))) =>
            LET back == execute(out, N(pair[2]))
            IN  /\ back.st = "ok"
                /\ reg(back.c.reg_file, A) = reg(old.reg_file, A)
                /\ flag_set(back.c.reg_file, Carry) <=> flag_set(old.reg_file, Carry)

\* ROLA of 0x80 with C clear gives 0x00 with C set, and RORA of that gives
\* 0x80 with C clear
C36_Witness ==
    /\ called
    /\ ret = Executed(N("ROLA"))
    /\ reg(old.reg_file, A) = 128
    /\ reg(old.reg_file, P) = 32
    /\ reg(out.reg_file, A) = 0
    /\ reg(out.reg_file, P) = 32 + mask(Zero) + mask(Carry)
    /\ reg(execute(out, N("RORA")).c.reg_file, A) = 128
    /\ ~flag_set(execute(out, N("RORA")).c.reg_file, Carry)


(***************************************************************************)
(* C37.  CMP, CPX and CPY set Z exactly when the register equals the       *)
(* operand, N to bit 7 of (register - operand) mod 256, and C exactly when *)
(* the register is at least the operand (unsigned); they change no         *)
(* register, no memory cell and none of V, D and I.                        *)
(***************************************************************************)
C37_Compare ==
    \A cmp \in { << "CMP", A >>, << "CPX", X >>, << "CPY", Y >> } :
        (called /\ ret = Executed(I(cmp[1], "Immediate"))) =>
            LET r == reg(old.reg_file, cmp[2])
                m == cell(old, wrap16(old.reg_file.pc + 1))
                diff == (r + 256 - m) % 256
            IN  /\ flag_set(out.reg_file, Zero) <=> r = m
                /\ flag_set(out.reg_file, Negative) <=> diff >= 128
                /\ flag_set(out.reg_file, Carry) <=> r >= m
                /\ \A f \in { Overflow, Decimal, InterruptDisable } :
                      flag_set(out.reg_file, f) <=> flag_set(old.reg_file, f)
                /\ \A rg \in { A, X, Y, S } : reg(out.reg_file, rg) = reg(old.reg_file, rg)
                /\ out.mem = old.mem

\* CPX of 0x10 against 0x90: the difference 0x80 sets N although the
\* register is the smaller, and C is clear
C37_Witness ==
    /\ called
    /\ ret = Executed(I("CPX", "Immediate"))
    /\ reg(old.reg_file, X) = 16
    /\ cell(old, 513) = 144
    /\ reg(old.reg_file, P) = 109
    /\ reg(out.reg_file, P) = 108 + mask(Negative)


(***************************************************************************)
(* C38.  TAX, TAY, TXA, TYA and TSX copy the source register to the        *)
(* destination and set N and Z from the byte copied, leaving the other     *)
(* registers, the other flags and memory alone; TXS copies X to S and      *)
(* leaves P, every flag of it, as it was.                                  *)
(***************************************************************************)
C38_Transfers ==
    /\ \A t \in { << "TAX", A, X >>, << "TAY", A, Y >>, << "TXA", X, A >>,
                  << "TYA", Y, A >>, << "TSX", S, X >> } :
          (called /\ ret = Executed(N(t[1]))) =>
              LET v == reg(old.reg_file, t[2])
              IN  /\ reg(out.reg_file, t[3]) = v
                  /\ flag_set(out.reg_file, Zero) <=> v = 0
                  /\ flag_set(out.reg_file, Negative) <=> v >= 128
                  /\ \A f \in { Overflow, Decimal, InterruptDisable, Carry, Break, AlwaysSet } :
                        flag_set(out.reg_file, f) <=> flag_set(old.reg_file, f)
                  /\ \A rg \in { A, X, Y, S } \ { t[3] } :
                        reg(out.reg_file, rg) = reg(old.reg_file, rg)
                  /\ out.mem = old.mem
    /\ (called /\ ret = Executed(N("TXS"))) =>
          /\ reg(out.reg_file, S) = reg(old.reg_file, X)
          /\ reg(out.reg_file, P) = reg(old.reg_file, P)
          /\ \A rg \in { A, X, Y } : reg(out.reg_file, rg) = reg(old.reg_file, rg)
          /\ out.mem = old.mem

\* TXS with X = 0xFF and N clear, Z set in P: S becomes 0xFF and P keeps
\* Z set and N clear
C38_Witness ==
    /\ called
    /\ ret = Executed(N("TXS"))
    /\ old.reg_file.r = << 0, 255, 144, 227, 0 >>
    /\ out.reg_file.r = << 0, 255, 144, 227, 255 >>


(***************************************************************************)
(* C39 as stated.  JMP abs sets PC to the 16-bit operand, JMP ind sets PC  *)
(* to the word stored at EA, where EA is the address the Indirect mode     *)
(* computes (the word at the address the operand names); neither form      *)
(* changes S, the stack page, A, X, Y or P.                                *)
(***************************************************************************)
C39_JumpThroughEA ==
    LET operand == mem16(old, wrap16(old.reg_file.pc + 1))
        EA == mem16(old, operand)
    IN  /\ (called /\ ret = Executed(I("JMP", "Absolute"))) =>
              /\ out.reg_file.pc = operand
              /\ out.reg_file.r = old.reg_file.r
              /\ out.mem = old.mem
        /\ (called /\ ret = Executed(I("JMP", "Indirect"))) =>
              /\ out.reg_file.pc = mem16(old, EA)
              /\ out.reg_file.r = old.reg_file.r
              /\ out.mem = old.mem

(***************************************************************************)
(* C39.  JMP abs sets PC to the 16-bit operand; JMP ind sets PC to EA, the *)
(* address the Indirect mode computes: the word stored at the address the  *)
(* operand names.  Neither form changes S, memory, A, X, Y or P.           *)
(***************************************************************************)
C39_Jump ==
    LET operand == mem16(old, wrap16(old.reg_file.pc + 1))
        EA == mem16(old, operand)
    IN  /\ (called /\ ret = Executed(I("JMP", "Absolute"))) =>
              /\ out.reg_file.pc = operand
              /\ out.reg_file.r = old.reg_file.r
              /\ out.mem = old.mem
        /\ (called /\ ret = Executed(I("JMP", "Indirect"))) =>
              /\ out.reg_file.pc = EA
              /\ out.reg_file.r = old.reg_file.r
              /\ out.mem = old.mem

\* JMP ($0310) at 0x0200: the cells 0x0310 and 0x0311 hold 0x5B and 0x80,
\* and PC becomes 0x805B although the word stored there is another
C39_Witness ==
    /\ called
    /\ ret = Executed(I("JMP", "Indirect"))
    /\ old.reg_file.pc = 512
    /\ mem16(old, 513) = 784
    /\ mem16(old, 784) = 32859
    /\ mem16(old, 32859) # 32859
    /\ out.reg_file.pc = 32859

====
